---- MODULE Spec2Model ----
(***************************************************************************)
(* A model of songbird's agent core.                                       *)
(*                                                                         *)
(*   Spec      : ConversationOrchestrator.chat (conversation.py), one      *)
(*               action per suspension point of a turn, together with the  *)
(*               confirmation gate of file_edit and the session that is    *)
(*               kept beside the in-memory history.                        *)
(*   SpecShell : the shell_exec tool (tools/shell_exec.py).                *)
(*   SpecCli   : Spec with /clear, /model and the resume of a stored       *)
(*               session taken between turns (cli.py).                     *)
(*   SpecModelSwap, SpecTools, SpecStream : LiteLLMAdapter                 *)
(*               (llm/litellm_adapter.py): model swaps, tool schemas,      *)
(*               completion errors and the stream.                         *)
(*   SpecHttp  : HTTPSessionManager (llm/http_session_manager.py) called   *)
(*               by concurrent tasks.                                      *)
(*   SpecSigint: the Ctrl-C double-tap guard of cli.py beside the status   *)
(*               section of _chat_loop and the notice-cleanup timers.      *)
(*   SpecTodoWrite, SpecTodoStore : the todo_write tool (tools/            *)
(*               todo_tools.py) and todos.json shared by several           *)
(*               TodoManagers (tools/todo_manager.py).                     *)
(*   SpecDiscovery : the cache of BaseModelDiscovery                       *)
(*               (discovery/model_discovery.py).                           *)
(*   SpecJson  : the tool messages chat() makes of tool results            *)
(*               (conversation.py).                                        *)
(*   SpecFileEdit : a file_edit tool call on the file system: preview,     *)
(*               confirmation and apply_file_edit step by step             *)
(*               (conversation.py, tools/file_operations.py).              *)
(*   SpecCommand : the /model command and what _chat_loop does with its    *)
(*               result (commands/model_command.py, cli.py).               *)
(*   SpecLoop  : the turns of _chat_loop around orchestrator.chat: the     *)
(*               spinner, _in_status and the exception handlers (cli.py).  *)
(*   SpecValidator : validate_and_fix_tool_arguments                       *)
(*               (llm/provider_validators.py) on strings of JSON tokens.   *)
(*   SpecTodoCount : the counters in the summary of todo_write.            *)
(*   SpecEnv   : the two environment checks of LiteLLMAdapter.             *)
(*   SpecHistory, SpecInput : MessageHistoryManager                        *)
(*               (memory/history_manager.py) and get_input_with_history    *)
(*               (commands/enhanced_input.py) reading one character at a   *)
(*               time.                                                     *)
(***************************************************************************)
EXTENDS Integers, Sequences, FiniteSets, TLC

VARIABLES
    pc,                     \* position of chat(): idle, await_model, dispatch, executing,
                            \* confirm, await_followup, done, raised, interrupted
    conversation_history,   \* self.conversation_history
    session_messages,       \* self.session.messages (in memory)
    stored_messages,        \* the messages of the session as last written by save_session
    has_session,            \* self.session is not None
    messages,               \* the prompt handed to the provider call in flight
    tools_sent,             \* whether that call was made with tools
    tool_calls,             \* response.tool_calls of the first provider call
    i,                      \* 1-based index of the tool call the loop is at
    tool_results,           \* the local list tool_results
    file_content,           \* content of the file the model edits
    backup_content,         \* content of its .bak sibling ("" when there is none)
    provider_calls,         \* provider calls made by the current turn
    exec_log,               \* history: tool start / end events of the current turn
    confirm_log,            \* history: how each confirmation of the turn resolved
    returned,               \* value returned by chat() (NoReturn while it has not returned)
    followup_tool_calls,    \* history: the tool calls carried by the follow-up response
    turn,                   \* turns started so far
    status,                 \* the Status spinner of the turn: none, running, stopped
    sh_pc,                  \* position of shell_exec(): idle, running, timed_out, returned
    sh_command,             \* its command argument
    sh_result,              \* the dictionary it returned
    sh_spawned,             \* whether create_subprocess_exec was reached in this call
    sh_alive,               \* whether the subprocess it started is still running
    ad_pc,                  \* position of a LiteLLMAdapter call: idle, awaiting,
                            \* awaiting_stream, streaming, returned, raised, closed
    ad_model,               \* adapter.model
    ad_last_model,          \* adapter._last_model
    ad_vendor_prefix,       \* adapter.vendor_prefix
    ad_model_name,          \* adapter.model_name
    ad_op,                  \* history: the last operation on the model and what it did
    ad_tools_in,            \* the tools argument of the call in flight
    ad_request,             \* completion_kwargs handed to litellm.acompletion
    ad_error,               \* the exception that left the call and the one that caused it
    ad_stream,              \* the stream litellm.acompletion returned to stream_chat
    hs_session,             \* HTTPSessionManager._session: 0 for None, else the client
    hs_created,             \* number of clients created so far (clients are 1..hs_created)
    hs_closed,              \* the clients whose is_closed is true
    hs_lock,                \* HTTPSessionManager._lock: 0 when free, else the task holding it
    hs_task,                \* per task: what it is calling and where it stands
    hs_ret,                 \* history: what the last call that returned gave back
    hs_gets,                \* history: <<closes so far, client>> of every get_session return
    sig_now,                \* time.monotonic(), in seconds
    sig_last,               \* cli._last: 0 for None, else the time of the previous tap
    sig_cleanup_timer,      \* cli._cleanup_timer: 0 for None, else the id of a Timer
    sig_timers,             \* the Timer threads that can still act: id, due, state
    sig_made,               \* Timers created so far
    sig_in_status,          \* cli._in_status
    sig_loop,               \* position of _chat_loop: input, flagged, chatting, stopped,
                            \* exited
    sig_call,               \* the provider call of the turn: none, in_flight, cancelled
    sig_handler,            \* the handler installed for SIGINT: _sigint or default
    sig_out,                \* history: the last write to the terminal
    sig_tap,                \* history: what the last run of _sigint saw and did
    td_file,                \* todos.json: whether it exists and what it holds
    td_made,                \* TodoItems created so far (the next uuid)
    td_pc,                  \* position of todo_write(): idle, loop
    td_session,             \* the session_id argument of that call
    td_todos,               \* TodoManager._todos of the manager of that call
    td_op,                  \* history: what the loop did with the last entry
    td_mgr,                 \* per other TodoManager: position, _todos and what it
                            \* holds open
    td_saved,               \* history: the last _save_todos that finished
    md_now,                 \* time.time(), in seconds
    md_cache,               \* BaseModelDiscovery._cache
    md_cache_timestamp,     \* BaseModelDiscovery._cache_timestamp
    md_call,                \* per task: where its discover_models call stands
    md_ret,                 \* history: the last discover_models call that returned
    md_source,              \* history: where the cached list came from
    js_pc,                  \* where the serialization of a tool result stands
    js_result,              \* the wrapper a tool call left in tool_results
    js_content,             \* the content of the tool message made from it
    fe_pc,                  \* where a file_edit tool call stands
    fe_file,                \* the target path: what is there and what it holds
    fe_bak,                 \* the .bak sibling of the target
    fe_args,                \* the arguments of the file_edit tool call
    fe_preview,             \* what file_edit returned
    fe_apply,               \* the locals of apply_file_edit
    fe_result,              \* what _handle_file_edit returned
    fe_call,                \* history: the target and its sibling when the call was made
    mc_pc,                  \* where the chat loop stands with a /model command
    mc_is_litellm,          \* whether the provider instance is a LiteLLM adapter
    mc_model,               \* provider_instance.model
    mc_config,              \* session.provider_config
    mc_messages,            \* session.messages
    mc_saved,               \* the session as save_session last wrote it
    mc_result,              \* the CommandResult of the last /model command
    mc_turn,                \* history: the turns since that command and the model they used
    mc_before,              \* history: the state when the command was given
    mc_count,               \* the /model commands given so far
    cl_pc,                  \* where _chat_loop stands
    cl_in_status,           \* the global _in_status, as the loop sets it
    cl_spinning,            \* whether the Status spinner of the turn is running
    cl_outcome,             \* how orchestrator.chat ended in the turn under way
    cl_shown,               \* what the loop displayed last
    cl_log,                 \* history: the outcomes of the turns so far
    va_pc,                  \* whether validate_and_fix_tool_arguments has been called
    va_arguments,           \* the raw arguments it was given
    va_provider,            \* the provider name it was given
    va_result,              \* what it returned
    tc_pc,                  \* where a counted todo_write call stands
    tc_todos,               \* the todos its TodoManager holds
    tc_made,                \* how many todos were ever created
    tc_n,                   \* how many entries the call has processed
    tc_result,              \* created_count, updated_count and completed_count
    tc_truth,               \* history: what the entries of the call really did
    ev_pc,                  \* how far an adapter and its readiness check have come
    ev_vendor,              \* the adapter's vendor_prefix
    ev_environ,             \* the environment variables that are set and not empty
    ev_preflight,           \* what the constructor's environment check found
    ev_status,              \* what check_environment_readiness returned
    hm_stored,              \* the user messages of the project's sessions on disk
    hm_mgr,                 \* the MessageHistoryManager: cache, index, original input
    hm_ret,                 \* what the last call on the manager returned
    hm_calls,               \* how many calls were made on the manager
    in_pc,                  \* where get_input_with_history stands
    in_stored,              \* the user messages on disk during the call
    in_mgr,                 \* the MessageHistoryManager it was given
    in_current,             \* current_input
    in_cursor,              \* cursor_pos
    in_mode,                \* in_history_mode
    in_seq,                 \* the character read after an escape character
    in_last,                \* history: the key handled last and the state it found
    in_keys                 \* how many characters were read

vars == <<pc, conversation_history, session_messages, stored_messages, has_session,
          messages, tools_sent, tool_calls, i, tool_results, file_content,
          backup_content, provider_calls, exec_log, confirm_log, returned,
          followup_tool_calls, turn, status,
          sh_pc, sh_command, sh_result, sh_spawned, sh_alive,
          ad_pc, ad_model, ad_last_model, ad_vendor_prefix, ad_model_name, ad_op,
          ad_tools_in, ad_request, ad_error, ad_stream,
          hs_session, hs_created, hs_closed, hs_lock, hs_task, hs_ret, hs_gets,
          sig_now, sig_last, sig_cleanup_timer, sig_timers, sig_made, sig_in_status,
          sig_loop, sig_call, sig_handler, sig_out, sig_tap,
          td_file, td_made, td_pc, td_session, td_todos, td_op, td_mgr, td_saved,
          md_now, md_cache, md_cache_timestamp, md_call, md_ret, md_source,
          js_pc, js_result, js_content,
          fe_pc, fe_file, fe_bak, fe_args, fe_preview, fe_apply, fe_result, fe_call,
          mc_pc, mc_is_litellm, mc_model, mc_config, mc_messages, mc_saved, mc_result, mc_turn, mc_before, mc_count,
          cl_pc, cl_in_status, cl_spinning, cl_outcome, cl_shown, cl_log,
          va_pc, va_arguments, va_provider, va_result,
          tc_pc, tc_todos, tc_made, tc_n, tc_result, tc_truth,
          ev_pc, ev_vendor, ev_environ, ev_preflight, ev_status,
          hm_stored, hm_mgr, hm_ret, hm_calls,
          in_pc, in_stored, in_mgr, in_current, in_cursor, in_mode, in_seq, in_last, in_keys>>

chat_vars == <<pc, conversation_history, session_messages, stored_messages, has_session,
               messages, tools_sent, tool_calls, i, tool_results, file_content,
               backup_content, provider_calls, exec_log, confirm_log, returned,
               followup_tool_calls, turn, status>>

shell_vars == <<sh_pc, sh_command, sh_result, sh_spawned, sh_alive>>

adapter_vars == <<ad_pc, ad_model, ad_last_model, ad_vendor_prefix, ad_model_name,
                  ad_op, ad_tools_in, ad_request, ad_error, ad_stream>>

http_vars == <<hs_session, hs_created, hs_closed, hs_lock, hs_task, hs_ret, hs_gets>>

signal_vars == <<sig_now, sig_last, sig_cleanup_timer, sig_timers, sig_made,
                 sig_in_status, sig_loop, sig_call, sig_handler, sig_out, sig_tap>>

todo_vars == <<td_file, td_made, td_pc, td_session, td_todos, td_op, td_mgr, td_saved>>

discovery_vars == <<md_now, md_cache, md_cache_timestamp, md_call, md_ret, md_source>>

json_vars == <<js_pc, js_result, js_content>>

edit_vars == <<fe_pc, fe_file, fe_bak, fe_args, fe_preview, fe_apply, fe_result, fe_call>>

command_vars == <<mc_pc, mc_is_litellm, mc_model, mc_config, mc_messages, mc_saved, mc_result, mc_turn, mc_before, mc_count>>

loop_vars == <<cl_pc, cl_in_status, cl_spinning, cl_outcome, cl_shown, cl_log>>

validator_vars == <<va_pc, va_arguments, va_provider, va_result>>

count_vars == <<tc_pc, tc_todos, tc_made, tc_n, tc_result, tc_truth>>

env_vars == <<ev_pc, ev_vendor, ev_environ, ev_preflight, ev_status>>

history_vars == <<hm_stored, hm_mgr, hm_ret, hm_calls>>

input_vars == <<in_pc, in_stored, in_mgr, in_current, in_cursor, in_mode, in_seq, in_last, in_keys>>

\* the variables of the subsystems modelled after the HTTP session manager
periphery_vars == <<signal_vars, todo_vars, discovery_vars, json_vars, edit_vars, command_vars, loop_vars, validator_vars, count_vars, env_vars, history_vars, input_vars>>

core_vars == <<chat_vars, shell_vars, adapter_vars, http_vars>>

\* everything but the signal guard
except_signal_vars == <<core_vars, todo_vars, discovery_vars, json_vars, edit_vars, command_vars, loop_vars, validator_vars, count_vars, env_vars, history_vars, input_vars>>

\* everything but the todo tools
except_todo_vars == <<core_vars, signal_vars, discovery_vars, json_vars, edit_vars, command_vars, loop_vars, validator_vars, count_vars, env_vars, history_vars, input_vars>>

\* everything but the model discovery
except_discovery_vars == <<core_vars, signal_vars, todo_vars, json_vars, edit_vars, command_vars, loop_vars, validator_vars, count_vars, env_vars, history_vars, input_vars>>

\* everything but the serialization of tool results
except_json_vars == <<core_vars, signal_vars, todo_vars, discovery_vars, edit_vars, command_vars, loop_vars, validator_vars, count_vars, env_vars, history_vars, input_vars>>

\* everything but the file_edit tool call
except_edit_vars == <<core_vars, signal_vars, todo_vars, discovery_vars, json_vars, command_vars, loop_vars, validator_vars, count_vars, env_vars, history_vars, input_vars>>

\* everything but the /model command
except_command_vars == <<core_vars, signal_vars, todo_vars, discovery_vars, json_vars, edit_vars, loop_vars, validator_vars, count_vars, env_vars, history_vars, input_vars>>

\* everything but the turns of the chat loop
except_loop_vars == <<core_vars, signal_vars, todo_vars, discovery_vars, json_vars, edit_vars, command_vars, validator_vars, count_vars, env_vars, history_vars, input_vars>>

\* everything but the validation of tool arguments
except_validator_vars == <<core_vars, signal_vars, todo_vars, discovery_vars, json_vars, edit_vars, command_vars, loop_vars, count_vars, env_vars, history_vars, input_vars>>

\* everything but the counters of todo_write
except_count_vars == <<core_vars, signal_vars, todo_vars, discovery_vars, json_vars, edit_vars, command_vars, loop_vars, validator_vars, env_vars, history_vars, input_vars>>

\* everything but the environment checks of the adapter
except_env_vars == <<core_vars, signal_vars, todo_vars, discovery_vars, json_vars, edit_vars, command_vars, loop_vars, validator_vars, count_vars, history_vars, input_vars>>

\* everything but the input history
except_history_vars == <<core_vars, signal_vars, todo_vars, discovery_vars, json_vars, edit_vars, command_vars, loop_vars, validator_vars, count_vars, env_vars, input_vars>>

\* everything but the input with history
except_input_vars == <<core_vars, signal_vars, todo_vars, discovery_vars, json_vars, edit_vars, command_vars, loop_vars, validator_vars, count_vars, env_vars, history_vars>>

(***************************************************************************)
(* Bounds and inputs                                                       *)
(***************************************************************************)
MaxTurns == 1

NoReturn == "<no return>"

\* The two glyphs of the fallback summary, U+2713 and U+2717, in ASCII.
CheckMark == "(v)"
CrossMark == "(x)"

system_prompt == "You are Songbird, an AI coding assistant"

UserInputs == {"change b to c in foo.txt"}

OldContent == "a\nb\n"
NewContent == "a\nc\n"

Last(s) == s[Len(s)]

(***************************************************************************)
(* Strings                                                                 *)
(***************************************************************************)
Contains(s, p) ==
    \E k \in 1..(Len(s) - Len(p) + 1) : SubSeq(s, k, k + Len(p) - 1) = p

RECURSIVE Join(_, _)
Join(lines, sep) ==
    IF Len(lines) = 0 THEN ""
    ELSE IF Len(lines) = 1 THEN lines[1]
    ELSE lines[1] \o sep \o Join(Tail(lines), sep)

(***************************************************************************)
(* Tool results.  A tool function returns a dictionary; of its keys the    *)
(* model keeps success, message and error ("" stands for an absent key).   *)
(* execute_tool wraps it as {"success": bool, "result": dict} or, on       *)
(* failure, as {"success": False, "error": text}.                          *)
(***************************************************************************)
Dict(success, message, error) ==
    [success |-> success, message |-> message, error |-> error]

NoDict == Dict(FALSE, "", "")

Wrapper(success, error, has_result, result) ==
    [success |-> success, error |-> error, has_result |-> has_result, result |-> result]

PyBool(b) == IF b THEN "true" ELSE "false"

JsonKey(key, value) ==
    IF value = "" THEN "" ELSE ", \"" \o key \o "\": \"" \o value \o "\""

\* json.dumps of a tool function's dictionary
DumpDict(d) ==
    "{\"success\": " \o PyBool(d.success)
        \o JsonKey("message", d.message) \o JsonKey("error", d.error) \o "}"

\* json.dumps of the wrapper around it
DumpWrapper(w) ==
    "{\"success\": " \o PyBool(w.success) \o JsonKey("error", w.error)
        \o (IF w.has_result THEN ", \"result\": " \o DumpDict(w.result) ELSE "")
        \o "}"

(***************************************************************************)
(* Messages                                                                *)
(***************************************************************************)
Message(role, content, calls, call_id) ==
    [role |-> role, content |-> content, tool_calls |-> calls, tool_call_id |-> call_id]

SystemMsg(content) == Message("system", content, <<>>, "")
UserMsg(content) == Message("user", content, <<>>, "")
AssistantMsg(content, calls) == Message("assistant", content, calls, "")
ToolMsg(content, call_id) == Message("tool", content, <<>>, call_id)

\* Session.add_message
add_message(msgs, m) == Append(msgs, m)

\* SessionManager.save_session: the stored session holds the session's messages
save_session(msgs) == msgs

\* the save left out
KeepStoredAfterUser(stored, session) == stored

KeepStoredAfterFinal(stored, session) == stored

\* conversation.py 216-220: the session is saved right after the user message
PersistUserMessage(stored, session) == save_session(session)

\* conversation.py 356-362, 396-401, 452-457: the session is saved with the
\* final assistant message of the turn
PersistFinalMessage(stored, session) == save_session(session)

(***************************************************************************)
(* Tool calls as a provider returns them.                                  *)
(*   fmt "object": an object with a .function attribute (Ollama)           *)
(*   fmt "dict"  : a dict with a "function" key (Gemini)                   *)
(*   fmt "other" : anything else                                           *)
(*   arguments "dict": a mapping; "json": a JSON string; "badjson": a      *)
(*   string json.loads rejects                                             *)
(***************************************************************************)
ToolCall(fmt, id, name, arguments) ==
    [fmt |-> fmt, id |-> id, name |-> name, arguments |-> arguments]

EditCall(id) == ToolCall("object", id, "file_edit", "dict")
ShellCall(id) == ToolCall("dict", id, "shell_exec", "json")
BadArgsCall(id) == ToolCall("dict", id, "shell_exec", "badjson")
OtherCall(id) == ToolCall("other", id, "shell_exec", "dict")

\* The responses of the provider that carry tool calls (ids unique within a turn).
ToolResponses ==
    { <<EditCall("call_1")>>,
      <<ShellCall("call_1")>>,
      <<OtherCall("call_1")>>,
      <<EditCall("call_1"), ShellCall("call_2")>>,
      <<ShellCall("call_1"), EditCall("call_2")>>,
      <<EditCall("call_1"), EditCall("call_2")>>,
      <<OtherCall("call_1"), ShellCall("call_2")>>,
      <<ShellCall("call_1"), BadArgsCall("call_2")>>,
      <<ShellCall("call_1"), OtherCall("call_2"), EditCall("call_3")>> }

\* conversation.py 242-252: the formats whose name and arguments the loop can read
HasFunction(tc) == tc.fmt \in {"object", "dict"}

\* conversation.py 269-275
ToolCallId(tc) == IF tc.fmt \in {"object", "dict"} THEN tc.id ELSE ""

\* conversation.py 285-301: one entry per tool call of the response
SerializeToolCall(tc) ==
    IF tc.fmt \in {"object", "dict"}
    THEN [form |-> "dict", id |-> tc.id, name |-> tc.name, arguments |-> tc.arguments]
    ELSE [form |-> "str", id |-> "", name |-> "", arguments |-> ""]

SerializableToolCalls(calls) == [k \in 1..Len(calls) |-> SerializeToolCall(calls[k])]

\* conversation.py 277-281
ToolResult(call_id, name, result) ==
    [tool_call_id |-> call_id, function_name |-> name, result |-> result]

\* the result put in front of the list
PrependResult(results, r) == <<r>> \o results

AppendResult(results, r) == Append(results, r)

\* conversation.py 320-330: the content of the tool message of one result
ToolMessageContent(wrapped) ==
    IF wrapped.success THEN DumpDict(wrapped.result) ELSE DumpWrapper(wrapped)

\* conversation.py 318-339
ToolMessages(results) ==
    [k \in 1..Len(results) |->
        ToolMsg(ToolMessageContent(results[k].result), results[k].tool_call_id)]

\* conversation.py 370-393: the summary returned when the follow-up call raises
StatusLine(r) ==
    IF r.result.success
    THEN IF r.function_name = "file_edit" THEN CheckMark \o " File edited successfully"
         ELSE IF r.function_name = "file_create" THEN CheckMark \o " File created successfully"
         ELSE CheckMark \o " " \o r.function_name \o " completed"
    ELSE CrossMark \o " " \o r.function_name \o " failed: "
            \o (IF r.result.error = "" THEN "Unknown error" ELSE r.result.error)

StatusContent(results) ==
    IF Len(results) = 0 THEN "Operation completed"
    ELSE Join([k \in 1..Len(results) |-> StatusLine(results[k])], "\n")

(***************************************************************************)
(* Prompts                                                                 *)
(***************************************************************************)
\* conversation.py 469-500
CleanForLlm(m) ==
    IF m.role = "system" THEN m
    ELSE IF m.role = "user" THEN UserMsg(m.content)
    ELSE IF m.role = "assistant" THEN AssistantMsg(m.content, m.tool_calls)
    ELSE ToolMsg(m.content, m.tool_call_id)

build_messages_for_llm(history) == [k \in 1..Len(history) |-> CleanForLlm(history[k])]

\* conversation.py 532-625: one paragraph per tool result
ToolSummary(r) ==
    IF r.result.success
    THEN IF r.function_name = "file_edit" THEN "Successfully edited file"
         ELSE IF r.function_name = "shell_exec" THEN "The command executed successfully"
         ELSE "Tool " \o r.function_name \o " executed successfully"
    ELSE "Tool " \o r.function_name \o " failed: "
            \o (IF r.result.error = "" THEN "Unknown error" ELSE r.result.error)

\* conversation.py 627-644
CombinedMessage(results) ==
    "Tool execution results:\n\n"
        \o Join([k \in 1..Len(results) |-> ToolSummary(results[k])], "\n\n---\n\n")
        \o (IF \E k \in 1..Len(results) :
                  results[k].function_name \in {"shell_exec", "file_edit"}
            THEN "\n\nIMPORTANT INSTRUCTIONS:" ELSE "")

\* every message but the system ones, tool messages included
SelectAllButSystem(history) == SelectSeq(history, LAMBDA m : m.role # "system")

\* conversation.py 517-529: user and assistant messages only
SelectUserAssistant(history) == SelectSeq(history, LAMBDA m : m.role \in {"user", "assistant"})

\* conversation.py 502-651
build_messages_with_function_results(history, results) ==
    <<SystemMsg(system_prompt)>>
        \o [k \in 1..Len(SelectUserAssistant(history)) |->
                LET m == SelectUserAssistant(history)[k]
                IN  Message(m.role, m.content, m.tool_calls, "")]
        \o <<UserMsg(CombinedMessage(results))>>

(***************************************************************************)
(* file_edit: the preview, the confirmation gate, the write                *)
(***************************************************************************)
\* file_operations.py 91-153: the preview reads the file and never writes.
\* readable is FALSE for a path that is a directory or a binary file.
file_edit(content, new_content, readable) ==
    IF readable
    THEN [success |-> TRUE, changes_made |-> (new_content # content),
          message |-> "", error |-> ""]
    ELSE [success |-> FALSE, changes_made |-> FALSE,
          message |-> "", error |-> "Cannot edit binary file"]

\* ToolExecutor.execute_tool: failures are encoded in the wrapper, never raised
execute_tool(result) ==
    IF result.success
    THEN Wrapper(TRUE, "", TRUE, Dict(TRUE, result.message, ""))
    ELSE Wrapper(FALSE, result.error, FALSE, NoDict)

\* conversation.py 60-94: the numbered menu used when InquirerPy raises.
\* typed is what input() yields: "1", "2", "" or "KeyboardInterrupt" (also EOF).
fallback_numbered_menu(typed, default_index) ==
    IF typed = "1" THEN 0
    ELSE IF typed = "2" THEN 1
    ELSE default_index

\* conversation.py 42-58: menu is what the InquirerPy prompt yields:
\* "Yes", "No", "KeyboardInterrupt" or "Exception".
async_interactive_menu(menu, typed, default_index) ==
    IF menu = "Yes" THEN 0
    ELSE IF menu = "No" THEN 1
    ELSE fallback_numbered_menu(typed, default_index)

None == -1

\* conversation.py 19-40: the selected index, or None when cancelled
safe_interactive_menu(tty, menu, typed, default_index) ==
    IF ~tty THEN default_index
    ELSE IF menu = "KeyboardInterrupt" THEN None
    ELSE async_interactive_menu(menu, typed, default_index)

\* anything but a cancellation taken for a confirmation
confirmed_unless_cancelled(auto_apply, tty, menu, typed) ==
    IF auto_apply THEN TRUE
    ELSE safe_interactive_menu(tty, menu, typed, 0) # None

\* conversation.py 681-699: whether the edit is applied
user_confirmed(auto_apply, tty, menu, typed) ==
    IF auto_apply THEN TRUE
    ELSE safe_interactive_menu(tty, menu, typed, 0) = 0

\* The environment at a confirmation: SONGBIRD_AUTO_APPLY, whether stdin and
\* stdout are terminals, and what the user does at the prompt that is shown.
ConfirmInputs ==
    [auto_apply : {TRUE}, tty : BOOLEAN, menu : {"none"}, typed : {"none"}]
    \cup [auto_apply : {FALSE}, tty : {FALSE}, menu : {"none"}, typed : {"none"}]
    \cup [auto_apply : {FALSE}, tty : {TRUE},
          menu : {"Yes", "No", "KeyboardInterrupt"}, typed : {"none"}]
    \cup [auto_apply : {FALSE}, tty : {TRUE}, menu : {"Exception"},
          typed : {"1", "2", "", "KeyboardInterrupt"}]

CancelledResult ==
    Wrapper(FALSE, "", TRUE, Dict(FALSE, "Changes cancelled by user", ""))

NoChangesResult ==
    Wrapper(TRUE, "", TRUE,
            Dict(TRUE, "No changes needed - file content is already as requested", ""))

\* file_operations.py 156-195.  fault is where the write fails: "none",
\* "backup" (writing the .bak sibling raises) or "write" (f.write raises after
\* open(path, 'w') has truncated the file).
apply_file_edit(content, backup, new_content, fault) ==
    IF fault = "none"
    THEN [file |-> new_content, backup |-> content,
          result |-> Dict(TRUE, "File updated successfully", "")]
    ELSE IF fault = "backup"
    THEN [file |-> content, backup |-> backup,
          result |-> Dict(FALSE, "", "Error applying file edit")]
    ELSE [file |-> "", backup |-> content,
          result |-> Dict(FALSE, "", "Error applying file edit")]

\* conversation.py 701-722
AppliedResult(apply_result) ==
    IF apply_result.success
    THEN Wrapper(TRUE, "", TRUE, Dict(TRUE, apply_result.message, ""))
    ELSE Wrapper(FALSE, "", TRUE, apply_result)

(***************************************************************************)
(* LiteLLMAdapter (llm/litellm_adapter.py): model string, tool schemas      *)
(***************************************************************************)
Missing == "<missing>"

\* position of the first "/" of a model string, 0 when there is none
SlashAt(m) ==
    IF Contains(m, "/")
    THEN CHOOSE k \in 1..Len(m) :
            /\ SubSeq(m, k, k) = "/"
            /\ \A j \in 1..(k - 1) : SubSeq(m, j, j) # "/"
    ELSE 0

\* litellm_adapter.py 56-62 and 587-592: model.split("/", 1), OpenAI when
\* there is no prefix
VendorPrefix(m) == IF SlashAt(m) = 0 THEN "openai" ELSE SubSeq(m, 1, SlashAt(m) - 1)

ModelName(m) == IF SlashAt(m) = 0 THEN m ELSE SubSeq(m, SlashAt(m) + 1, Len(m))

Models == {"openai/gpt-4o", "gpt-4o", "openrouter/anthropic/claude-3.5-sonnet"}

\* A tool schema as the caller hands it over.  type and parameters hold
\* Missing when the key is absent; parameters is "object" for a mapping with
\* properties, "object_no_properties" for a mapping without that key,
\* "properties_null" for a mapping whose properties is None and "null" for
\* a parameters value that is None.
Tool(name, type, has_function, has_name, parameters) ==
    [name |-> name, type |-> type, has_function |-> has_function,
     has_name |-> has_name, parameters |-> parameters]

ToolShapes ==
    { Tool("file_read", "function", TRUE, TRUE, "object"),
      Tool("shell_exec", "function", TRUE, TRUE, "object"),
      Tool("todo_read", "function", TRUE, TRUE, "object_no_properties"),
      Tool("no_type", Missing, TRUE, TRUE, "object"),
      Tool("retrieval", "retrieval", TRUE, TRUE, "object"),
      Tool("no_function", "function", FALSE, FALSE, Missing),
      Tool("no_name", "function", TRUE, FALSE, "object"),
      Tool("no_parameters", "function", TRUE, TRUE, Missing),
      Tool("null_parameters", "function", TRUE, TRUE, "null"),
      Tool("null_properties", "function", TRUE, TRUE, "properties_null") }

MaxTools == 2

ToolLists == UNION { [1..n -> ToolShapes] : n \in 0..MaxTools }

\* litellm_adapter.py 380-381: the debug line evaluates
\* len(func.get('parameters', {}).get('properties', {})), which raises for a
\* parameters or properties value that is None; line 384 catches it
ValidationRaises(tool) == tool.parameters \in {"null", "properties_null"}

\* litellm_adapter.py 362-386: whether the loop appends the tool
ToolValidated(tool) ==
    /\ tool.type = "function"
    /\ tool.has_function
    /\ tool.has_name
    /\ tool.parameters # Missing
    /\ ~ValidationRaises(tool)

\* nothing is validated
keep_all_tools(tools) == tools

\* litellm_adapter.py 342-391
format_tools_for_provider(tools) == SelectSeq(tools, ToolValidated)

\* litellm_adapter.py 104-119 and 150-166: the keyword arguments of
\* litellm.acompletion
CompletionKwargs(model, tools, stream) ==
    LET validated_tools == format_tools_for_provider(tools)
        with_tools == Len(tools) > 0 /\ Len(validated_tools) > 0
    IN  [model |-> model,
         stream |-> stream,
         has_tools |-> with_tools,
         tools |-> IF with_tools THEN validated_tools ELSE <<>>,
         tool_choice |-> IF with_tools THEN "auto" ELSE Missing]

NoRequest ==
    [model |-> "", stream |-> FALSE, has_tools |-> FALSE, tools |-> <<>>,
     tool_choice |-> Missing]

NoError == [left |-> "", cause |-> [cls |-> "", text |-> "", is_exception |-> TRUE]]

NoStream == [obtained |-> FALSE, has_aclose |-> FALSE, closes |-> 0, yielded |-> 0]

ModelOp(name, arg, old_model, old_last, flushed, validated) ==
    [name |-> name, arg |-> arg, old_model |-> old_model, old_last |-> old_last,
     flushed |-> flushed, validated |-> validated]

\* litellm_adapter.py 43-84
AdapterInit ==
    /\ ad_pc = "idle"
    /\ ad_model = "openai/gpt-4o"
    /\ ad_last_model = "openai/gpt-4o"
    /\ ad_vendor_prefix = VendorPrefix("openai/gpt-4o")
    /\ ad_model_name = ModelName("openai/gpt-4o")
    /\ ad_op = ModelOp("init", "openai/gpt-4o", "", "", FALSE, TRUE)
    /\ ad_tools_in = <<>>
    /\ ad_request = NoRequest
    /\ ad_error = NoError
    /\ ad_stream = NoStream

(***************************************************************************)
(* HTTPSessionManager (llm/http_session_manager.py): initial state         *)
(***************************************************************************)
MaxTasks == 2

MaxClients == 3

Tasks == 1..MaxTasks

NoCall ==
    [task |-> 0, op |-> "none", client |-> 0, open |-> {}, value |-> FALSE,
     noop |-> FALSE]

\* http_session_manager.py 21-24: no client until the first get_session
HttpInit ==
    /\ hs_session = 0
    /\ hs_created = 0
    /\ hs_closed = {}
    /\ hs_lock = 0
    /\ hs_task = [t \in Tasks |-> "idle"]
    /\ hs_ret = NoCall
    /\ hs_gets = {}

(***************************************************************************)
(* The Ctrl-C guard of cli.py: the state after the module is imported      *)
(***************************************************************************)
MaxTime == 5

\* cli.py 73: seconds between taps
GRACE == 2

NoWrite == [by |-> "none", cursor |-> FALSE, in_status |-> FALSE]

NoTap ==
    [n |-> 0, kind |-> "none", at |-> 0, previous |-> 0, in_status |-> FALSE,
     call_before |-> "none", call_after |-> "none", raised |-> FALSE,
     handler_after |-> "_sigint"]

\* cli.py 73-76 and 142
SigintInit ==
    /\ sig_now = 1
    /\ sig_last = 0
    /\ sig_cleanup_timer = 0
    /\ sig_timers = {}
    /\ sig_made = 0
    /\ sig_in_status = FALSE
    /\ sig_loop = "input"
    /\ sig_call = "none"
    /\ sig_handler = "_sigint"
    /\ sig_out = NoWrite
    /\ sig_tap = NoTap

(***************************************************************************)
(* The todo tools: the state before todos.json exists                      *)
(***************************************************************************)
MaxTodos == 2

Managers == {1, 2}

\* session_id is None
NoSessionId == ""

NoTodoOp == [kind |-> "none", target |-> 0, by_id |-> FALSE, content |-> ""]

NoSave == [by |-> 0, todos |-> <<>>]

\* todo_manager.py 71-76 and 109-113
TodoInit ==
    /\ td_file = [exists |-> FALSE, chunks |-> <<>>]
    /\ td_made = 0
    /\ td_pc = "idle"
    /\ td_session = NoSessionId
    /\ td_todos = <<>>
    /\ td_op = NoTodoOp
    /\ td_mgr = [m \in Managers |-> [pc |-> "none", todos |-> <<>>]]
    /\ td_saved = NoSave

(***************************************************************************)
(* Model discovery: a discoverer that has not been asked yet               *)
(***************************************************************************)
MaxTicks == 4

\* model_discovery.py 51
cache_ttl == 300

\* time.time() when the discoverer is made, and the seconds between two
\* readings of the clock that differ
Epoch == 1000
TickSeconds == 100

Callers == {1, 2}

NoDiscoveryCall == [pc |-> "idle", use_cache |-> FALSE]

NoDiscovery ==
    [task |-> 0, use_cache |-> FALSE, discovered |-> FALSE, succeeded |-> FALSE,
     value |-> <<>>]

\* model_discovery.py 46-51
DiscoveryInit ==
    /\ md_now = Epoch
    /\ md_cache = <<>>
    /\ md_cache_timestamp = 0
    /\ md_call = [t \in Callers |-> NoDiscoveryCall]
    /\ md_ret = NoDiscovery
    /\ md_source = "none"

(***************************************************************************)
(* Tool results as Python values, and the state before one is serialized   *)
(***************************************************************************)
MaxDepth == 2

Str(s) == [kind |-> "str", text |-> s, items |-> <<>>]

Bool(b) == [kind |-> "bool", text |-> PyBool(b), items |-> <<>>]

\* a rich.text.Text, as a tool may leave one in its result
\* (test_performance_fixes.py 36-49)
RichText(s) == [kind |-> "Text", text |-> s, items |-> <<>>]

PyList(items) == [kind |-> "list", text |-> "", items |-> items]

Pair(key, value) == [key |-> key, value |-> value]

\* a dict: its items in insertion order
PyDict(pairs) == [kind |-> "dict", text |-> "", items |-> pairs]

NoValue == [kind |-> "none", text |-> "", items |-> <<>>]

NoWrapper == [success |-> FALSE, has_result |-> FALSE, error |-> "", result |-> NoValue]

JsonInit ==
    /\ js_pc = "idle"
    /\ js_result = NoWrapper
    /\ js_content = ""


(***************************************************************************)
(* The file system around a file_edit tool call.  A text is a sequence of  *)
(* characters; "LF" and "CR" are the line feed and the carriage return,    *)
(* "0xFF" is a byte that is not UTF-8.                                     *)
(***************************************************************************)
Absent == [kind |-> "absent", content |-> <<>>]

Directory == [kind |-> "dir", content |-> <<>>]

RegularFile(content) == [kind |-> "file", content |-> content]

NoEditArgs == [new_content |-> <<>>, create_backup |-> TRUE]

NoPreview == [success |-> FALSE, changes_made |-> FALSE, message |-> "", error |-> ""]

NoApply == [file_existed |-> FALSE, create_backup |-> FALSE, text |-> <<>>]

NoFiles == [file |-> Absent, bak |-> Absent]

NoEditResult == Wrapper(FALSE, "", FALSE, NoDict)

EditInit ==
    /\ fe_pc = "start"
    /\ fe_file = Absent
    /\ fe_bak = Absent
    /\ fe_args = NoEditArgs
    /\ fe_preview = NoPreview
    /\ fe_apply = NoApply
    /\ fe_result = NoEditResult
    /\ fe_call = NoFiles

(***************************************************************************)
(* The /model command: the state before a provider is built                *)
(***************************************************************************)
MaxCommands == 2

provider_name == "openai"

\* session.provider_config
ProviderConfig(model, litellm_model, provider_type) ==
    [model |-> model, litellm_model |-> litellm_model, provider_type |-> provider_type]

NoConfig == ProviderConfig("", "", "")

SavedSession(config, msgs) == [config |-> config, messages |-> msgs]

\* CommandResult: data holds "new_model" or nothing
CommandResult(success, message, new_model) ==
    [success |-> success, message |-> message, new_model |-> new_model]

NoCommandResult == CommandResult(FALSE, "", "")

NoCommandState ==
    [model |-> "", config |-> NoConfig, saved |-> SavedSession(NoConfig, <<>>),
     messages |-> <<>>, typed |-> "", choice |-> 0]

CommandInit ==
    /\ mc_pc = "start"
    /\ mc_is_litellm = FALSE
    /\ mc_model = ""
    /\ mc_config = NoConfig
    /\ mc_messages = <<>>
    /\ mc_saved = SavedSession(NoConfig, <<>>)
    /\ mc_result = NoCommandResult
    /\ mc_turn = [n |-> 0, model |-> ""]
    /\ mc_before = NoCommandState
    /\ mc_count = 0

(***************************************************************************)
(* The turns of _chat_loop: the state when the loop is entered             *)
(***************************************************************************)
MaxLoops == 3

LoopInit ==
    /\ cl_pc = "input"
    /\ cl_in_status = FALSE
    /\ cl_spinning = FALSE
    /\ cl_outcome = "none"
    /\ cl_shown = "banner"
    /\ cl_log = <<>>

(***************************************************************************)
(* Tool arguments as a provider sends them: a dict, a string (here the     *)
(* sequence of its JSON tokens) or some other object                       *)
(***************************************************************************)
MaxTokens == 3

Num(s) == [kind |-> "int", text |-> s, items |-> <<>>]

Argument(kind, tokens, value) == [kind |-> kind, tokens |-> tokens, value |-> value]

NoArgument == Argument("none", <<>>, NoValue)

ValidatorInit ==
    /\ va_pc = "idle"
    /\ va_arguments = NoArgument
    /\ va_provider = ""
    /\ va_result = NoValue

(***************************************************************************)
(* The counters of todo_write: no call yet, no todos                       *)
(***************************************************************************)
MaxEntries == 2

Counts(created, updated, completed) ==
    [created |-> created, updated |-> updated, completed |-> completed]

CountInit ==
    /\ tc_pc = "idle"
    /\ tc_todos = <<>>
    /\ tc_made = 0
    /\ tc_n = 0
    /\ tc_result = Counts(0, 0, 0)
    /\ tc_truth = Counts(0, 0, 0)

(***************************************************************************)
(* The environment checks of LiteLLMAdapter: no adapter yet                *)
(***************************************************************************)
\* dict.get gives None for a provider without a required variable
NoEnvVar == "<none>"

Preflight(env_var, warned, constructed) ==
    [env_var |-> env_var, warned |-> warned, constructed |-> constructed]

Readiness(env_ready, env_var, env_status) ==
    [env_ready |-> env_ready, env_var |-> env_var, env_status |-> env_status]

EnvInit ==
    /\ ev_pc = "none"
    /\ ev_vendor = ""
    /\ ev_environ = {}
    /\ ev_preflight = Preflight(NoEnvVar, FALSE, FALSE)
    /\ ev_status = Readiness(FALSE, NoEnvVar, "unknown")

(***************************************************************************)
(* The input history: a new MessageHistoryManager (memory/                 *)
(* history_manager.py 10-15) over a project without messages.  A text is   *)
(* the sequence of its characters.                                         *)
(***************************************************************************)
MaxHistory == 3

MaxCalls == 4

\* _history_cache is None until the first load
HistoryManager(loaded, cache, current_index, original_input) ==
    [loaded |-> loaded, cache |-> cache, current_index |-> current_index,
     original_input |-> original_input]

NewHistoryManager == HistoryManager(FALSE, <<>>, -1, <<>>)

\* a call returns a text, returns None, or raises IndexError
HistoryCall(op, kind, text, before) ==
    [op |-> op, kind |-> kind, text |-> text, before |-> before]

NoHistoryCall == HistoryCall("none", "none", <<>>, NewHistoryManager)

HistoryInit ==
    /\ hm_stored = <<>>
    /\ hm_mgr = NewHistoryManager
    /\ hm_ret = NoHistoryCall
    /\ hm_calls = 0

(***************************************************************************)
(* get_input_with_history: before the prompt is shown                      *)
(***************************************************************************)
MaxKeys == 6

Handled(key, mode_before, typed) == [key |-> key, mode_before |-> mode_before, typed |-> typed]

InputInit ==
    /\ in_pc = "none"
    /\ in_stored = <<>>
    /\ in_mgr = NewHistoryManager
    /\ in_current = <<>>
    /\ in_cursor = 0
    /\ in_mode = FALSE
    /\ in_seq = ""
    /\ in_last = Handled("none", FALSE, <<>>)
    /\ in_keys = 0

(***************************************************************************)
(* chat(): the turn                                                        *)
(***************************************************************************)
\* the spinner goes on
keep_spinning(spinner) == spinner

\* conversation.py 234-236 and 673-675: status.stop() when a status was given
stop(spinner) == IF spinner = "none" THEN "none" ELSE "stopped"

TurnLocalsReset ==
    /\ messages' = <<>>
    /\ tools_sent' = FALSE
    /\ tool_calls' = <<>>
    /\ i' = 0
    /\ tool_results' = <<>>
    /\ provider_calls' = 0
    /\ exec_log' = <<>>
    /\ confirm_log' = <<>>
    /\ returned' = NoReturn
    /\ followup_tool_calls' = <<>>

Init ==
    /\ pc = "idle"
    /\ has_session \in BOOLEAN
    /\ conversation_history = <<SystemMsg(system_prompt)>>
    /\ session_messages = IF has_session THEN <<SystemMsg(system_prompt)>> ELSE <<>>
    /\ stored_messages = <<>>
    /\ messages = <<>>
    /\ tools_sent = FALSE
    /\ tool_calls = <<>>
    /\ i = 0
    /\ tool_results = <<>>
    /\ file_content = OldContent
    /\ backup_content = ""
    /\ provider_calls = 0
    /\ exec_log = <<>>
    /\ confirm_log = <<>>
    /\ returned = NoReturn
    /\ followup_tool_calls = <<>>
    /\ turn = 0
    /\ status = "none"
    /\ sh_pc = "idle"
    /\ sh_command = ""
    /\ sh_result = [success |-> FALSE, error |-> "", exit_code |-> 0, output_truncated |-> FALSE]
    /\ sh_spawned = FALSE
    /\ sh_alive = FALSE
    /\ AdapterInit
    /\ HttpInit
    /\ SigintInit
    /\ TodoInit
    /\ DiscoveryInit
    /\ JsonInit
    /\ EditInit
    /\ CommandInit
    /\ LoopInit
    /\ ValidatorInit
    /\ CountInit
    /\ EnvInit
    /\ HistoryInit
    /\ InputInit

\* conversation.py 207-229: the user message is recorded and saved, the prompt
\* is built and the first provider call is made with the tools
ChatStart(message) ==
    /\ pc = "idle"
    /\ turn < MaxTurns
    /\ turn' = turn + 1
    /\ conversation_history' = Append(conversation_history, UserMsg(message))
    /\ session_messages' =
          IF has_session THEN add_message(session_messages, UserMsg(message))
          ELSE session_messages
    /\ stored_messages' =
          IF has_session THEN PersistUserMessage(stored_messages, session_messages')
          ELSE stored_messages
    /\ messages' = build_messages_for_llm(conversation_history')
    /\ tools_sent' = TRUE
    /\ provider_calls' = 1
    /\ pc' = "await_model"
    /\ UNCHANGED <<has_session, tool_calls, i, tool_results, file_content,
                   backup_content, exec_log, confirm_log, returned,
                   followup_tool_calls>>
    /\ status' = "running"
    /\ UNCHANGED <<shell_vars, adapter_vars, http_vars, periphery_vars>>

\* conversation.py 229, 444-459: a response without tool calls ends the turn
ModelAnswers(content) ==
    /\ pc = "await_model"
    /\ conversation_history' = Append(conversation_history, AssistantMsg(content, <<>>))
    /\ session_messages' =
          IF has_session THEN add_message(session_messages, AssistantMsg(content, <<>>))
          ELSE session_messages
    /\ stored_messages' =
          IF has_session THEN PersistFinalMessage(stored_messages, session_messages')
          ELSE stored_messages
    /\ returned' = content
    /\ pc' = "done"
    /\ UNCHANGED <<has_session, messages, tools_sent, tool_calls, i, tool_results,
                   file_content, backup_content, provider_calls, exec_log,
                   confirm_log, followup_tool_calls, turn>>
    /\ UNCHANGED status
    /\ UNCHANGED <<shell_vars, adapter_vars, http_vars, periphery_vars>>

\* conversation.py 229-240: a response with tool calls starts the tool loop
ModelCallsTools(calls) ==
    /\ pc = "await_model"
    /\ tool_calls' = calls
    /\ i' = 1
    /\ tool_results' = <<>>
    /\ pc' = "dispatch"
    /\ UNCHANGED <<conversation_history, session_messages, stored_messages,
                   has_session, messages, tools_sent, file_content, backup_content,
                   provider_calls, exec_log, confirm_log, returned, followup_tool_calls, turn>>
    /\ status' = stop(status)
    /\ UNCHANGED <<shell_vars, adapter_vars, http_vars, periphery_vars>>

\* conversation.py 229: the provider raises (ConnectionError, ValueError); chat
\* has no handler around the first call
ModelRaises ==
    /\ pc = "await_model"
    /\ pc' = "raised_provider"
    /\ UNCHANGED <<conversation_history, session_messages, stored_messages,
                   has_session, messages, tools_sent, tool_calls, i, tool_results,
                   file_content, backup_content, provider_calls, exec_log,
                   confirm_log, returned, followup_tool_calls, turn>>
    /\ UNCHANGED status
    /\ UNCHANGED <<shell_vars, adapter_vars, http_vars, periphery_vars>>

\* cli.py 108-122: the second tap raises KeyboardInterrupt in the main thread;
\* neither call site in chat catches it (conversation.py 229, 346, 365)
KeyboardInterrupt ==
    /\ pc \in {"await_model", "await_followup"}
    /\ pc' = IF pc = "await_model" THEN "interrupted_model" ELSE "interrupted_followup"
    /\ UNCHANGED <<conversation_history, session_messages, stored_messages,
                   has_session, messages, tools_sent, tool_calls, i, tool_results,
                   file_content, backup_content, provider_calls, exec_log,
                   confirm_log, returned, followup_tool_calls, turn>>
    /\ UNCHANGED status
    /\ UNCHANGED <<shell_vars, adapter_vars, http_vars, periphery_vars>>

\* What a tool other than file_edit can return through execute_tool
ToolOutcomes ==
    { Dict(TRUE, "", ""), Dict(FALSE, "", "Command failed with exit code 1") }

\* conversation.py 240-262 and 653-679: one iteration of the tool loop, up to
\* the point where the tool (or the confirmation prompt) is awaited
DispatchToolCall(readable) ==
    /\ pc = "dispatch"
    /\ i <= Len(tool_calls)
    /\ LET tc == tool_calls[i]
           preview == file_edit(file_content, NewContent, readable)
       IN  IF ~HasFunction(tc)
           THEN \* unknown format: continue
                /\ i' = i + 1
                /\ UNCHANGED <<pc, tool_results, exec_log>>
           ELSE IF tc.arguments = "badjson"
           THEN \* json.loads raises out of chat
                /\ pc' = "raised_arguments"
                /\ UNCHANGED <<i, tool_results, exec_log>>
           ELSE IF tc.name # "file_edit"
           THEN /\ pc' = "executing"
                /\ exec_log' = Append(exec_log, [ev |-> "start", idx |-> i])
                /\ UNCHANGED <<i, tool_results>>
           ELSE IF ~preview.success
           THEN /\ tool_results' = AppendResult(tool_results,
                        ToolResult(ToolCallId(tc), tc.name, execute_tool(preview)))
                /\ exec_log' = exec_log
                        \o <<[ev |-> "start", idx |-> i], [ev |-> "end", idx |-> i]>>
                /\ i' = i + 1
                /\ UNCHANGED pc
           ELSE IF ~preview.changes_made
           THEN /\ tool_results' = AppendResult(tool_results,
                        ToolResult(ToolCallId(tc), tc.name, NoChangesResult))
                /\ exec_log' = exec_log
                        \o <<[ev |-> "start", idx |-> i], [ev |-> "end", idx |-> i]>>
                /\ i' = i + 1
                /\ UNCHANGED pc
           ELSE \* the diff is displayed and the prompt is awaited
                /\ pc' = "confirm"
                /\ exec_log' = Append(exec_log, [ev |-> "start", idx |-> i])
                /\ UNCHANGED <<i, tool_results>>
    /\ UNCHANGED <<conversation_history, session_messages, stored_messages,
                   has_session, messages, tools_sent, tool_calls, file_content,
                   backup_content, provider_calls, confirm_log, returned, followup_tool_calls, turn>>
    /\ status' = IF pc' = "confirm" THEN stop(status) ELSE status
    /\ UNCHANGED <<shell_vars, adapter_vars, http_vars, periphery_vars>>

\* conversation.py 262-281: the tool returns and its result is appended
ToolReturns(outcome) ==
    /\ pc = "executing"
    /\ tool_results' = AppendResult(tool_results,
            ToolResult(ToolCallId(tool_calls[i]), tool_calls[i].name, execute_tool(outcome)))
    /\ exec_log' = Append(exec_log, [ev |-> "end", idx |-> i])
    /\ i' = i + 1
    /\ pc' = "dispatch"
    /\ UNCHANGED <<conversation_history, session_messages, stored_messages,
                   has_session, messages, tools_sent, tool_calls, file_content,
                   backup_content, provider_calls, confirm_log, returned, followup_tool_calls, turn>>
    /\ UNCHANGED status
    /\ UNCHANGED <<shell_vars, adapter_vars, http_vars, periphery_vars>>

\* conversation.py 681-730 and 264-281: the confirmation resolves; the edit is
\* applied or refused and the result of the file_edit call is appended
ConfirmResolves(env, fault) ==
    /\ pc = "confirm"
    /\ LET confirmed == user_confirmed(env.auto_apply, env.tty, env.menu, env.typed)
           applied == apply_file_edit(file_content, backup_content, NewContent, fault)
           result == IF confirmed THEN AppliedResult(applied.result) ELSE CancelledResult
       IN  /\ file_content' = IF confirmed THEN applied.file ELSE file_content
           /\ backup_content' = IF confirmed THEN applied.backup ELSE backup_content
           /\ tool_results' = AppendResult(tool_results,
                    ToolResult(ToolCallId(tool_calls[i]), tool_calls[i].name, result))
           /\ confirm_log' = Append(confirm_log,
                    [idx |-> i, env |-> env, apply_called |-> confirmed,
                     before |-> file_content, after |-> file_content'])
    /\ exec_log' = Append(exec_log, [ev |-> "end", idx |-> i])
    /\ i' = i + 1
    /\ pc' = "dispatch"
    /\ UNCHANGED <<conversation_history, session_messages, stored_messages,
                   has_session, messages, tools_sent, tool_calls, provider_calls,
                   returned, followup_tool_calls, turn>>
    /\ UNCHANGED status
    /\ UNCHANGED <<shell_vars, adapter_vars, http_vars, periphery_vars>>

\* conversation.py 283-347: after the loop the assistant message and the tool
\* messages are appended, and the follow-up call is made without tools
FinishToolLoop ==
    /\ pc = "dispatch"
    /\ i > Len(tool_calls)
    /\ LET assistant == AssistantMsg("", SerializableToolCalls(tool_calls))
       IN  /\ conversation_history' =
                 Append(conversation_history, assistant) \o ToolMessages(tool_results)
           /\ session_messages' =
                 IF has_session
                 THEN add_message(session_messages, assistant) \o ToolMessages(tool_results)
                 ELSE session_messages
    /\ messages' = build_messages_with_function_results(conversation_history', tool_results)
    /\ tools_sent' = FALSE
    /\ provider_calls' = provider_calls + 1
    /\ pc' = "await_followup"
    /\ UNCHANGED <<stored_messages, has_session, tool_calls, i, tool_results,
                   file_content, backup_content, exec_log, confirm_log, returned, followup_tool_calls, turn>>
    /\ UNCHANGED status
    /\ UNCHANGED <<shell_vars, adapter_vars, http_vars, periphery_vars>>

\* conversation.py 346-364: the follow-up call returns
FollowupAnswers(content, calls) ==
    /\ pc = "await_followup"
    /\ followup_tool_calls' = calls
    /\ conversation_history' = Append(conversation_history, AssistantMsg(content, <<>>))
    /\ session_messages' =
          IF has_session THEN add_message(session_messages, AssistantMsg(content, <<>>))
          ELSE session_messages
    /\ stored_messages' =
          IF has_session THEN PersistFinalMessage(stored_messages, session_messages')
          ELSE stored_messages
    /\ returned' = content
    /\ pc' = "done"
    /\ UNCHANGED <<has_session, messages, tools_sent, tool_calls, i, tool_results,
                   file_content, backup_content, provider_calls, exec_log,
                   confirm_log, turn>>
    /\ UNCHANGED status
    /\ UNCHANGED <<shell_vars, adapter_vars, http_vars, periphery_vars>>

\* conversation.py 365-403: the follow-up call raises an Exception
FollowupRaises ==
    /\ pc = "await_followup"
    /\ session_messages' =
          IF has_session
          THEN add_message(session_messages, AssistantMsg(StatusContent(tool_results), <<>>))
          ELSE session_messages
    /\ stored_messages' =
          IF has_session THEN PersistFinalMessage(stored_messages, session_messages')
          ELSE stored_messages
    /\ returned' = StatusContent(tool_results)
    /\ pc' = "done"
    /\ UNCHANGED <<conversation_history, has_session, messages, tools_sent, tool_calls,
                   i, tool_results, file_content, backup_content, provider_calls,
                   exec_log, confirm_log, followup_tool_calls, turn>>
    /\ UNCHANGED status
    /\ UNCHANGED <<shell_vars, adapter_vars, http_vars, periphery_vars>>

\* cli.py 871-892: chat has returned or raised an Exception; the loop prompts again
ChatReturns ==
    /\ pc \in {"done", "raised_provider", "raised_arguments"}
    /\ pc' = "idle"
    /\ TurnLocalsReset
    /\ UNCHANGED <<conversation_history, session_messages, stored_messages,
                   has_session, file_content, backup_content, turn>>
    /\ status' = "none"
    /\ UNCHANGED <<shell_vars, adapter_vars, http_vars, periphery_vars>>

FinalAnswers == {"Done."}

\* What the follow-up response carries beside its text: chat reads only .content
FollowupToolCalls == { <<>>, <<ShellCall("call_9")>> }

Next ==
    \/ \E message \in UserInputs : ChatStart(message)
    \/ \E content \in FinalAnswers : ModelAnswers(content)
    \/ \E calls \in ToolResponses : ModelCallsTools(calls)
    \/ ModelRaises
    \/ KeyboardInterrupt
    \/ \E readable \in BOOLEAN : DispatchToolCall(readable)
    \/ \E outcome \in ToolOutcomes : ToolReturns(outcome)
    \/ \E env \in ConfirmInputs, fault \in {"none", "backup", "write"} :
            ConfirmResolves(env, fault)
    \/ FinishToolLoop
    \/ \E content \in FinalAnswers, calls \in FollowupToolCalls :
            FollowupAnswers(content, calls)
    \/ FollowupRaises
    \/ ChatReturns

Spec == Init /\ [][Next]_vars

(***************************************************************************)
(* shell_exec (tools/shell_exec.py)                                        *)
(***************************************************************************)
max_output_size == 4096

UpperCase == "ABCDEFGHIJKLMNOPQRSTUVWXYZ"
LowerCase == "abcdefghijklmnopqrstuvwxyz"

LowerChar(c) ==
    IF \E k \in 1..Len(UpperCase) : SubSeq(UpperCase, k, k) = c
    THEN LET k == CHOOSE k \in 1..Len(UpperCase) : SubSeq(UpperCase, k, k) = c
         IN  SubSeq(LowerCase, k, k)
    ELSE c

\* str.lower
RECURSIVE Lower(_)
Lower(str) ==
    IF Len(str) = 0 THEN ""
    ELSE LowerChar(SubSeq(str, 1, 1)) \o Lower(SubSeq(str, 2, Len(str)))

\* shell_exec.py 145-155
dangerous_patterns ==
    { "rm -rf /", "mkfs", "dd if=", ":(){ :|:& };:", "sudo rm", "sudo dd",
      "format", "> /dev/", "chmod 777 /" }

\* shell_exec.py 134-158
is_command_safe(command) ==
    ~ \E pattern \in dangerous_patterns : Contains(Lower(command), pattern)

Commands ==
    { "ls -la", "pwd", "git status", "python script.py",
      "rm -rf /", "RM -RF /", "rm -rf /tmp/build", "mkfs.ext4 /dev/sdb1",
      "dd if=/dev/zero of=/dev/sda", ":(){ :|:& };:", "sudo rm notes.txt",
      "git log --format=%H", "echo hi > /dev/null", "chmod 777 /" }

ShellResult(success, error, exit_code, truncated) ==
    [success |-> success, error |-> error, exit_code |-> exit_code,
     output_truncated |-> truncated]

\* shell_exec.py 31-58 and 111-131: the working directory is validated and the
\* subprocess is created.  spawn is "ok" or the error create_subprocess_exec
\* raises.
ShellExecCall(command, dir_exists, spawn) ==
    /\ sh_pc = "idle"
    /\ sh_command' = command
    /\ IF ~dir_exists
       THEN /\ sh_result' = ShellResult(FALSE, "Working directory does not exist", 0, FALSE)
            /\ sh_pc' = "returned"
            /\ sh_spawned' = FALSE
            /\ sh_alive' = FALSE
       ELSE IF spawn # "ok"
       THEN /\ sh_result' = ShellResult(FALSE, spawn, 0, FALSE)
            /\ sh_pc' = "returned"
            /\ sh_spawned' = FALSE
            /\ sh_alive' = FALSE
       ELSE /\ sh_pc' = "running"
            /\ sh_spawned' = TRUE
            /\ sh_alive' = TRUE
            /\ UNCHANGED sh_result
    /\ UNCHANGED <<chat_vars, adapter_vars, http_vars, periphery_vars>>

\* shell_exec.py 60-109: the subprocess exits before the timeout
ShellProcessExits(exit_code, output_size) ==
    /\ sh_pc = "running"
    /\ sh_alive' = FALSE
    /\ sh_result' = ShellResult(exit_code = 0,
                                IF exit_code = 0 THEN "" ELSE "Command failed with exit code",
                                exit_code, output_size > max_output_size)
    /\ sh_pc' = "returned"
    /\ UNCHANGED <<sh_command, sh_spawned>>
    /\ UNCHANGED <<chat_vars, adapter_vars, http_vars, periphery_vars>>

\* shell_exec.py 60-66: the timeout expires before communicate() is done;
\* wait_for cancels it and raises TimeoutError
ShellTimesOut ==
    /\ sh_pc = "running"
    /\ sh_pc' = "timed_out"
    /\ UNCHANGED <<sh_command, sh_result, sh_spawned, sh_alive>>
    /\ UNCHANGED <<chat_vars, adapter_vars, http_vars, periphery_vars>>

\* the subprocess exits by itself after the timeout has expired and before
\* the handler of TimeoutError has run
ShellProcessExitsLate ==
    /\ sh_pc = "timed_out"
    /\ sh_alive
    /\ sh_alive' = FALSE
    /\ UNCHANGED <<sh_pc, sh_command, sh_result, sh_spawned>>
    /\ UNCHANGED <<chat_vars, adapter_vars, http_vars, periphery_vars>>

\* shell_exec.py 66-75: process.kill(), await process.wait() and the timed
\* out result.  kill() on a subprocess that has exited raises
\* ProcessLookupError, which the handler at 124-130 turns into a result.
ShellKills ==
    /\ sh_pc = "timed_out"
    /\ sh_alive' = FALSE
    /\ sh_result' = IF sh_alive
                    THEN ShellResult(FALSE, "Command timed out", 0, FALSE)
                    ELSE ShellResult(FALSE, "Error executing command", 0, FALSE)
    /\ sh_pc' = "returned"
    /\ UNCHANGED <<sh_command, sh_spawned>>
    /\ UNCHANGED <<chat_vars, adapter_vars, http_vars, periphery_vars>>

\* the caller takes the result; the tool can be called again
ShellExecDone ==
    /\ sh_pc = "returned"
    /\ sh_pc' = "idle"
    /\ sh_spawned' = FALSE
    /\ UNCHANGED <<sh_command, sh_result, sh_alive>>
    /\ UNCHANGED <<chat_vars, adapter_vars, http_vars, periphery_vars>>

NextShell ==
    \/ \E command \in Commands, dir_exists \in BOOLEAN,
          spawn \in {"ok", "Command not found", "Permission denied"} :
            ShellExecCall(command, dir_exists, spawn)
    \/ \E exit_code \in {0, 1, 127},
          output_size \in {0, max_output_size, max_output_size + 1} :
            ShellProcessExits(exit_code, output_size)
    \/ ShellTimesOut
    \/ ShellProcessExitsLate
    \/ ShellKills
    \/ ShellExecDone

SpecShell == Init /\ [][NextShell]_vars

(***************************************************************************)
(* LiteLLMAdapter: set_model, chat_with_messages, stream_chat              *)
(***************************************************************************)
MaxChunks == 2

\* What litellm.acompletion or the stream can raise: class name, text, and
\* whether the class derives from Exception (CancelledError and
\* KeyboardInterrupt do not)
Raised(cls, text, is_exception) == [cls |-> cls, text |-> text, is_exception |-> is_exception]

ErrorsRaised ==
    { Raised("AuthenticationError", "Incorrect key provided", TRUE),
      Raised("BadRequestError", "Invalid API Key", TRUE),
      Raised("APIError", "Error code: 401", TRUE),
      Raised("RateLimitError", "Rate limit reached", TRUE),
      Raised("APIError", "429 Too Many Requests", TRUE),
      Raised("APIError", "Too Many Requests", TRUE),
      Raised("APIError", "You exceeded your current quota", TRUE),
      Raised("NotFoundError", "The model gpt-5 was not found", TRUE),
      Raised("NotFoundError", "Resource not found", TRUE),
      Raised("BadRequestError", "response_format is not supported", TRUE),
      Raised("APIError", "Error code: 404", TRUE),
      Raised("Timeout", "Request timeout", TRUE),
      Raised("APIConnectionError", "Connection refused", TRUE),
      Raised("APIError", "503 Service Unavailable", TRUE),
      Raised("APIError", "Network is unreachable", TRUE),
      Raised("APIError", "401 after timeout, rate limit 429", TRUE),
      Raised("ValueError", "Unexpected end of JSON input", TRUE),
      Raised("CancelledError", "", FALSE) }

\* every error reported as the generic one
generic_error(error) == "LiteLLMError"

\* litellm_adapter.py 220-271
handle_completion_error(error) ==
    LET error_msg == Lower(error.text)
        error_class == Lower(error.cls)
    IN  IF Contains(error_class, "authentication") \/ Contains(error_class, "auth")
        THEN "LiteLLMAuthenticationError"
        ELSE IF \/ Contains(error_msg, "authentication")
                \/ Contains(error_msg, "api key")
                \/ Contains(error_msg, "unauthorized")
                \/ Contains(error_msg, "401")
        THEN "LiteLLMAuthenticationError"
        ELSE IF \/ Contains(error_msg, "rate limit")
                \/ Contains(error_msg, "quota")
                \/ Contains(error_msg, "too many requests")
                \/ Contains(error_msg, "429")
        THEN "LiteLLMRateLimitError"
        ELSE IF \/ /\ Contains(error_msg, "model")
                   /\ \/ Contains(error_msg, "not found")
                      \/ Contains(error_msg, "not supported")
                \/ Contains(error_msg, "404")
        THEN "LiteLLMModelError"
        ELSE IF \/ Contains(error_msg, "connection")
                \/ Contains(error_msg, "timeout")
                \/ Contains(error_msg, "network")
                \/ Contains(error_msg, "503")
        THEN "LiteLLMConnectionError"
        ELSE "LiteLLMError"

\* litellm_adapter.py 127-130 and 187-190: except Exception classifies; an
\* exception that is not an Exception passes through
ErrorLeaving(error) ==
    IF error.is_exception THEN handle_completion_error(error) ELSE error.cls

\* the stream is left as it is
leave_stream_open(stream) == stream

\* litellm_adapter.py 181-185: the finally block of stream_chat
close_stream(stream) ==
    IF stream.has_aclose THEN [stream EXCEPT !.closes = @ + 1] ELSE stream

\* litellm_adapter.py 576-597: flush_state, as the new values of
\* _last_model, vendor_prefix and model_name
FlushState(model) ==
    /\ ad_last_model' = model
    /\ ad_vendor_prefix' = VendorPrefix(model)
    /\ ad_model_name' = ModelName(model)

\* litellm_adapter.py 604-613
set_model(new_model) ==
    /\ ad_pc = "idle"
    /\ ad_model' = new_model
    /\ IF ad_model # new_model
       THEN FlushState(new_model)
       ELSE UNCHANGED <<ad_last_model, ad_vendor_prefix, ad_model_name>>
    /\ ad_op' = ModelOp("set_model", new_model, ad_model, ad_last_model,
                        ad_model # new_model, ad_model # new_model)
    /\ UNCHANGED <<ad_pc, ad_tools_in, ad_request, ad_error, ad_stream>>
    /\ UNCHANGED <<chat_vars, shell_vars, http_vars, periphery_vars>>

\* model_command.py 78, 101, 165, 183: provider_instance.model = new_model
AssignModel(new_model) ==
    /\ ad_pc = "idle"
    /\ ad_model' = new_model
    /\ ad_op' = ModelOp("assign", new_model, ad_model, ad_last_model, FALSE, FALSE)
    /\ UNCHANGED <<ad_pc, ad_last_model, ad_vendor_prefix, ad_model_name,
                   ad_tools_in, ad_request, ad_error, ad_stream>>
    /\ UNCHANGED <<chat_vars, shell_vars, http_vars, periphery_vars>>

\* litellm_adapter.py 98-122 and 144-171: the call checks for a changed model,
\* builds the keyword arguments and awaits litellm.acompletion
StartCall(stream, tools) ==
    /\ ad_pc = "idle"
    /\ IF ad_model # ad_last_model
       THEN FlushState(ad_model)
       ELSE UNCHANGED <<ad_last_model, ad_vendor_prefix, ad_model_name>>
    /\ ad_op' = ModelOp("call", ad_model, ad_model, ad_last_model,
                        ad_model # ad_last_model, FALSE)
    /\ ad_tools_in' = tools
    /\ ad_request' = CompletionKwargs(ad_model, tools, stream)
    /\ ad_pc' = IF stream THEN "awaiting_stream" ELSE "awaiting"
    /\ UNCHANGED <<ad_model, ad_error, ad_stream>>
    /\ UNCHANGED <<chat_vars, shell_vars, http_vars, periphery_vars>>

\* litellm_adapter.py 122-125: the completion returns and is converted
CompletionReturns ==
    /\ ad_pc = "awaiting"
    /\ ad_pc' = "returned"
    /\ UNCHANGED <<ad_model, ad_last_model, ad_vendor_prefix, ad_model_name, ad_op,
                   ad_tools_in, ad_request, ad_error, ad_stream>>
    /\ UNCHANGED <<chat_vars, shell_vars, http_vars, periphery_vars>>

\* litellm_adapter.py 127-130 and 187-190: litellm.acompletion raises
CompletionRaises(error) ==
    /\ ad_pc \in {"awaiting", "awaiting_stream"}
    /\ ad_error' = [left |-> ErrorLeaving(error), cause |-> error]
    /\ ad_pc' = "raised"
    /\ UNCHANGED <<ad_model, ad_last_model, ad_vendor_prefix, ad_model_name, ad_op,
                   ad_tools_in, ad_request, ad_stream>>
    /\ UNCHANGED <<chat_vars, shell_vars, http_vars, periphery_vars>>

\* litellm_adapter.py 171: the stream is obtained
StreamObtained(has_aclose) ==
    /\ ad_pc = "awaiting_stream"
    /\ ad_stream' = [obtained |-> TRUE, has_aclose |-> has_aclose, closes |-> 0,
                     yielded |-> 0]
    /\ ad_pc' = "streaming"
    /\ UNCHANGED <<ad_model, ad_last_model, ad_vendor_prefix, ad_model_name, ad_op,
                   ad_tools_in, ad_request, ad_error>>
    /\ UNCHANGED <<chat_vars, shell_vars, http_vars, periphery_vars>>

\* litellm_adapter.py 175-178: a chunk is normalized and yielded
StreamYields ==
    /\ ad_pc = "streaming"
    /\ ad_stream.yielded < MaxChunks
    /\ ad_stream' = [ad_stream EXCEPT !.yielded = @ + 1]
    /\ UNCHANGED <<ad_pc, ad_model, ad_last_model, ad_vendor_prefix, ad_model_name,
                   ad_op, ad_tools_in, ad_request, ad_error>>
    /\ UNCHANGED <<chat_vars, shell_vars, http_vars, periphery_vars>>

\* litellm_adapter.py 175-185: the stream is exhausted
StreamExhausted ==
    /\ ad_pc = "streaming"
    /\ ad_stream' = close_stream(ad_stream)
    /\ ad_pc' = "returned"
    /\ UNCHANGED <<ad_model, ad_last_model, ad_vendor_prefix, ad_model_name, ad_op,
                   ad_tools_in, ad_request, ad_error>>
    /\ UNCHANGED <<chat_vars, shell_vars, http_vars, periphery_vars>>

\* litellm_adapter.py 175-190: the iteration raises; the finally block runs
\* before the handler
StreamRaises(error) ==
    /\ ad_pc = "streaming"
    /\ ad_stream' = close_stream(ad_stream)
    /\ ad_error' = [left |-> ErrorLeaving(error), cause |-> error]
    /\ ad_pc' = "raised"
    /\ UNCHANGED <<ad_model, ad_last_model, ad_vendor_prefix, ad_model_name, ad_op,
                   ad_tools_in, ad_request>>
    /\ UNCHANGED <<chat_vars, shell_vars, http_vars, periphery_vars>>

\* litellm_adapter.py 178-185: the consumer closes the generator while it is
\* suspended at the yield; GeneratorExit runs the finally block
ConsumerCloses ==
    /\ ad_pc = "streaming"
    /\ ad_stream.yielded > 0
    /\ ad_stream' = close_stream(ad_stream)
    /\ ad_pc' = "closed"
    /\ UNCHANGED <<ad_model, ad_last_model, ad_vendor_prefix, ad_model_name, ad_op,
                   ad_tools_in, ad_request, ad_error>>
    /\ UNCHANGED <<chat_vars, shell_vars, http_vars, periphery_vars>>

\* the caller is done with the call
CallDone ==
    /\ ad_pc \in {"returned", "raised", "closed"}
    /\ ad_pc' = "idle"
    /\ ad_tools_in' = <<>>
    /\ ad_request' = NoRequest
    /\ ad_error' = NoError
    /\ ad_stream' = NoStream
    /\ UNCHANGED <<ad_model, ad_last_model, ad_vendor_prefix, ad_model_name, ad_op>>
    /\ UNCHANGED <<chat_vars, shell_vars, http_vars, periphery_vars>>

\* the tools of a call when the tools are not what is looked at
SomeTools == { <<>>, <<Tool("shell_exec", "function", TRUE, TRUE, "object")>> }

\* set_model, direct assignment and the calls that follow them
NextModelSwap ==
    \/ \E new_model \in Models : set_model(new_model)
    \/ \E new_model \in Models : AssignModel(new_model)
    \/ \E stream \in BOOLEAN, tools \in SomeTools : StartCall(stream, tools)
    \/ CompletionReturns
    \/ StreamObtained(TRUE)
    \/ StreamExhausted
    \/ CallDone

SpecModelSwap == Init /\ [][NextModelSwap]_vars

\* calls with every list of tool schemas
NextTools ==
    \/ \E stream \in BOOLEAN, tools \in ToolLists : StartCall(stream, tools)
    \/ CompletionReturns
    \/ StreamObtained(TRUE)
    \/ StreamExhausted
    \/ CallDone

SpecTools == Init /\ [][NextTools]_vars

\* calls with every outcome of the completion and of the stream
NextStream ==
    \/ \E stream \in BOOLEAN, tools \in SomeTools : StartCall(stream, tools)
    \/ CompletionReturns
    \/ \E error \in ErrorsRaised : CompletionRaises(error)
    \/ \E has_aclose \in BOOLEAN : StreamObtained(has_aclose)
    \/ StreamYields
    \/ StreamExhausted
    \/ \E error \in ErrorsRaised : StreamRaises(error)
    \/ ConsumerCloses
    \/ CallDone

SpecStream == Init /\ [][NextStream]_vars

(***************************************************************************)
(* HTTPSessionManager: get_session, close_session, health_check.  Each     *)
(* task is a coroutine; the code between two awaits runs without           *)
(* interleaving, and a task that finds the lock taken (or other tasks      *)
(* already waiting for it) waits.                                          *)
(***************************************************************************)
\* a client is made on every call
always_new_client(session, closed) == TRUE

\* http_session_manager.py 48: _session is None or _session.is_closed
needs_new_client(session, closed) == session = 0 \/ session \in closed

\* any client, closed or not
session_exists(session, closed) == session # 0

\* http_session_manager.py 81: _session and not _session.is_closed
session_open(session, closed) == session # 0 /\ session \notin closed

\* http_session_manager.py 122-124
health(session, closed) == session # 0 /\ session \notin closed

OpenClients(created, closed) == (1..created) \ closed

Returned(t, op, client, open, value, noop) ==
    [task |-> t, op |-> op, client |-> client, open |-> open, value |-> value,
     noop |-> noop]

Waiting == {t \in Tasks : hs_task[t] \in {"wait_get", "wait_close", "wait_health"}}

\* asyncio.Lock.acquire returns at once when the lock is free and nobody waits
MayEnter(t, waiting_as) ==
    /\ hs_lock = 0
    /\ \/ hs_task[t] = waiting_as
       \/ hs_task[t] = "idle" /\ Waiting = {}

\* http_session_manager.py 47, 80, 121: async with _lock, the lock being taken
CallWaits(t, waiting_as) ==
    /\ hs_task[t] = "idle"
    /\ hs_lock # 0 \/ Waiting # {}
    /\ hs_task' = [hs_task EXCEPT ![t] = waiting_as]
    /\ UNCHANGED <<hs_session, hs_created, hs_closed, hs_lock, hs_ret, hs_gets>>
    /\ UNCHANGED <<chat_vars, shell_vars, adapter_vars, periphery_vars>>

\* http_session_manager.py 41-74
get_session(t) ==
    /\ MayEnter(t, "wait_get")
    /\ IF needs_new_client(hs_session, hs_closed)
       THEN /\ hs_created < MaxClients
            /\ hs_created' = hs_created + 1
            /\ hs_session' = hs_created + 1
       ELSE UNCHANGED <<hs_session, hs_created>>
    /\ hs_ret' =
            Returned(t, "get", hs_session', OpenClients(hs_created', hs_closed),
                     hs_session' \notin hs_closed, FALSE)
    /\ hs_gets' = hs_gets \cup {<<Cardinality(hs_closed), hs_session'>>}
    /\ hs_task' = [hs_task EXCEPT ![t] = "idle"]
    /\ UNCHANGED <<hs_closed, hs_lock>>
    /\ UNCHANGED <<chat_vars, shell_vars, adapter_vars, periphery_vars>>

\* http_session_manager.py 115-124
health_check(t) ==
    /\ MayEnter(t, "wait_health")
    /\ hs_ret' =
            Returned(t, "health", hs_session, OpenClients(hs_created, hs_closed),
                     health(hs_session, hs_closed), FALSE)
    /\ hs_task' = [hs_task EXCEPT ![t] = "idle"]
    /\ UNCHANGED <<hs_session, hs_created, hs_closed, hs_lock, hs_gets>>
    /\ UNCHANGED <<chat_vars, shell_vars, adapter_vars, periphery_vars>>

\* http_session_manager.py 76-84: close_session up to the await of aclose(),
\* which marks the client closed; without an open client it returns at once
close_session(t) ==
    /\ MayEnter(t, "wait_close")
    /\ IF session_open(hs_session, hs_closed)
       THEN /\ hs_lock' = t
            /\ hs_closed' = hs_closed \cup {hs_session}
            /\ hs_task' = [hs_task EXCEPT ![t] = "closing"]
            /\ UNCHANGED hs_ret
       ELSE /\ hs_ret' =
                    Returned(t, "close", hs_session, OpenClients(hs_created, hs_closed),
                             FALSE, TRUE)
            /\ hs_task' = [hs_task EXCEPT ![t] = "idle"]
            /\ UNCHANGED <<hs_lock, hs_closed>>
    /\ UNCHANGED <<hs_session, hs_created, hs_gets>>
    /\ UNCHANGED <<chat_vars, shell_vars, adapter_vars, periphery_vars>>

\* http_session_manager.py 84-87: aclose() has returned, the sleep begins
CloseSleeps(t) ==
    /\ hs_task[t] = "closing"
    /\ hs_task' = [hs_task EXCEPT ![t] = "sleeping"]
    /\ UNCHANGED <<hs_session, hs_created, hs_closed, hs_lock, hs_ret, hs_gets>>
    /\ UNCHANGED <<chat_vars, shell_vars, adapter_vars, periphery_vars>>

\* http_session_manager.py 87-90: _session = None, the lock is released
CloseReturns(t) ==
    /\ hs_task[t] = "sleeping"
    /\ hs_session' = 0
    /\ hs_lock' = 0
    /\ hs_ret' =
            Returned(t, "close", 0, OpenClients(hs_created, hs_closed), FALSE, FALSE)
    /\ hs_task' = [hs_task EXCEPT ![t] = "idle"]
    /\ UNCHANGED <<hs_created, hs_closed, hs_gets>>
    /\ UNCHANGED <<chat_vars, shell_vars, adapter_vars, periphery_vars>>

\* http_session_manager.py 80-87: the task is cancelled at one of the two
\* awaits; async with releases the lock and _session keeps the closed client
CloseCancelled(t) ==
    /\ hs_task[t] \in {"closing", "sleeping"}
    /\ hs_lock' = 0
    /\ hs_ret' =
            Returned(t, "cancelled", hs_session, OpenClients(hs_created, hs_closed),
                     FALSE, FALSE)
    /\ hs_task' = [hs_task EXCEPT ![t] = "idle"]
    /\ UNCHANGED <<hs_session, hs_created, hs_closed, hs_gets>>
    /\ UNCHANGED <<chat_vars, shell_vars, adapter_vars, periphery_vars>>

NextHttp ==
    \E t \in Tasks :
        \/ \E waiting_as \in {"wait_get", "wait_close", "wait_health"} :
                CallWaits(t, waiting_as)
        \/ get_session(t)
        \/ health_check(t)
        \/ close_session(t)
        \/ CloseSleeps(t)
        \/ CloseReturns(t)
        \/ CloseCancelled(t)

SpecHttp == Init /\ [][NextHttp]_vars

(***************************************************************************)
(* The steps of a turn that chat() and what it awaits take themselves      *)
(* (all of Next but the start of a turn and the interrupt).                *)
(***************************************************************************)
TurnStep ==
    \/ \E content \in FinalAnswers : ModelAnswers(content)
    \/ \E calls \in ToolResponses : ModelCallsTools(calls)
    \/ ModelRaises
    \/ \E readable \in BOOLEAN : DispatchToolCall(readable)
    \/ \E outcome \in ToolOutcomes : ToolReturns(outcome)
    \/ \E env \in ConfirmInputs, fault \in {"none", "backup", "write"} :
            ConfirmResolves(env, fault)
    \/ FinishToolLoop
    \/ \E content \in FinalAnswers, calls \in FollowupToolCalls :
            FollowupAnswers(content, calls)
    \/ FollowupRaises
    \/ ChatReturns

(***************************************************************************)
(* The chat loop's commands and the resume of a stored session (cli.py,    *)
(* ConversationOrchestrator.__init__).  SpecCli is Spec with these steps   *)
(* taken between turns.                                                    *)
(***************************************************************************)
MaxSwitches == 1

\* cli.py 835-838: the context message of a model change (its leading glyph,
\* U+1F504, left out)
SwitchText == "Model switched to gpt-4o via /model command"

SwitchCount(msgs) == Len(SelectSeq(msgs, LAMBDA m : m.content = SwitchText))

\* conversation.py 180-194
load_history_from_session(msgs) ==
    [k \in 1..Len(msgs) |->
        Message(msgs[k].role, msgs[k].content, msgs[k].tool_calls, msgs[k].tool_call_id)]

\* cli.py 796-806: /clear empties the history and the session, and saves it
ClearHistory ==
    /\ pc = "idle"
    /\ conversation_history' = <<>>
    /\ session_messages' = IF has_session THEN <<>> ELSE session_messages
    /\ stored_messages' = IF has_session THEN save_session(<<>>) ELSE stored_messages
    /\ UNCHANGED <<pc, has_session, messages, tools_sent, tool_calls, i, tool_results,
                   file_content, backup_content, provider_calls, exec_log,
                   confirm_log, returned, followup_tool_calls, turn>>
    /\ UNCHANGED status
    /\ UNCHANGED <<shell_vars, adapter_vars, http_vars, periphery_vars>>

\* cli.py 808-843: /model saves the session and then adds a system message
\* about the change to the session only
ModelSwitched ==
    /\ pc = "idle"
    /\ has_session
    /\ SwitchCount(session_messages) < MaxSwitches
    /\ stored_messages' = save_session(session_messages)
    /\ session_messages' = add_message(session_messages, SystemMsg(SwitchText))
    /\ UNCHANGED <<pc, conversation_history, has_session, messages, tools_sent,
                   tool_calls, i, tool_results, file_content, backup_content,
                   provider_calls, exec_log, confirm_log, returned,
                   followup_tool_calls, turn>>
    /\ UNCHANGED status
    /\ UNCHANGED <<shell_vars, adapter_vars, http_vars, periphery_vars>>

\* conversation.py 113-178: a new orchestrator is built on the stored session
ResumeSession ==
    /\ pc = "idle"
    /\ has_session
    /\ IF Len(stored_messages) > 0
       THEN /\ session_messages' = stored_messages
            /\ conversation_history' = load_history_from_session(stored_messages)
       ELSE /\ conversation_history' = <<SystemMsg(system_prompt)>>
            /\ session_messages' = add_message(<<>>, SystemMsg(system_prompt))
    /\ UNCHANGED <<pc, stored_messages, has_session, messages, tools_sent, tool_calls,
                   i, tool_results, file_content, backup_content, provider_calls,
                   exec_log, confirm_log, returned, followup_tool_calls, turn>>
    /\ UNCHANGED status
    /\ UNCHANGED <<shell_vars, adapter_vars, http_vars, periphery_vars>>

NextCli ==
    \/ Next
    \/ ClearHistory
    \/ ModelSwitched
    \/ ResumeSession

SpecCli == Init /\ [][NextCli]_vars

(***************************************************************************)
(* The Ctrl-C guard (cli.py 73-142) and the status section of _chat_loop   *)
(* (cli.py 856-877).  _sigint runs in the main thread between two of its   *)
(* instructions; every Timer runs _clear in a thread of its own.           *)
(***************************************************************************)
\* threading.Timer.cancel: a Timer that has not started its function never does
cancel(id, timers) == {t \in timers : ~(t.id = id /\ t.state = "pending")}

Write(by, cursor) == [by |-> by, cursor |-> cursor, in_status |-> sig_in_status]

Tap(kind, raised, handler_after) ==
    [n |-> sig_tap.n + 1, kind |-> kind, at |-> sig_now, previous |-> sig_last,
     in_status |-> sig_in_status, call_before |-> sig_call, call_after |-> sig_call,
     raised |-> raised, handler_after |-> handler_after]

\* cli.py 111: time passes
SigTick ==
    /\ sig_now < MaxTime
    /\ sig_loop # "exited"
    /\ sig_now' = sig_now + 1
    /\ UNCHANGED <<sig_last, sig_cleanup_timer, sig_timers, sig_made, sig_in_status,
                   sig_loop, sig_call, sig_handler, sig_out, sig_tap>>
    /\ UNCHANGED except_signal_vars

\* cli.py 109-127: a tap within the grace window of the previous one
SecondTap ==
    /\ sig_last # 0 /\ sig_now - sig_last < GRACE
    /\ sig_timers' = cancel(sig_cleanup_timer, sig_timers)
    /\ sig_handler' = "default"
    /\ sig_out' = Write("handler", ~sig_in_status)
    /\ sig_tap' = Tap("second", TRUE, "default")
    /\ sig_loop' = "exited"
    /\ UNCHANGED <<sig_last, sig_cleanup_timer, sig_made, sig_call>>

\* cli.py 78-107: _flash_notice, called with _in_status false
flash_notice ==
    /\ sig_out' = Write("handler", TRUE)
    /\ sig_made' = sig_made + 1
    /\ sig_cleanup_timer' = sig_made + 1
    /\ sig_timers' = cancel(sig_cleanup_timer, sig_timers)
                        \cup {[id |-> sig_made + 1, due |-> sig_now + GRACE,
                               state |-> "pending"]}

\* cli.py 129-139: any other tap
FirstTap ==
    /\ ~(sig_last # 0 /\ sig_now - sig_last < GRACE)
    /\ IF sig_in_status
       THEN /\ sig_out' = Write("handler", FALSE)
            /\ UNCHANGED <<sig_cleanup_timer, sig_timers, sig_made>>
       ELSE flash_notice
    /\ sig_last' = sig_now
    /\ sig_tap' = Tap("first", FALSE, "_sigint")
    /\ UNCHANGED <<sig_handler, sig_loop, sig_call>>

\* cli.py 109-139: SIGINT is delivered while _sigint is the handler
sigint ==
    /\ sig_handler = "_sigint"
    /\ sig_loop # "exited"
    /\ SecondTap \/ FirstTap
    /\ UNCHANGED <<sig_now, sig_in_status>>
    /\ UNCHANGED except_signal_vars

\* cli.py 98-99: a Timer wakes up at or after its deadline and _clear reads
\* _in_status
ClearChecks(t) ==
    /\ t \in sig_timers /\ t.state = "pending"
    /\ sig_now >= t.due
    /\ sig_timers' = IF sig_in_status
                     THEN sig_timers \ {t}
                     ELSE (sig_timers \ {t}) \cup {[t EXCEPT !.state = "writing"]}
    /\ UNCHANGED <<sig_now, sig_last, sig_cleanup_timer, sig_made, sig_in_status,
                   sig_loop, sig_call, sig_handler, sig_out, sig_tap>>
    /\ UNCHANGED except_signal_vars

\* cli.py 100-104: _clear writes the sequences that erase the notice
ClearWrites(t) ==
    /\ t \in sig_timers /\ t.state = "writing"
    /\ sig_out' = Write("timer", TRUE)
    /\ sig_timers' = sig_timers \ {t}
    /\ UNCHANGED <<sig_now, sig_last, sig_cleanup_timer, sig_made, sig_in_status,
                   sig_loop, sig_call, sig_handler, sig_tap>>
    /\ UNCHANGED except_signal_vars

\* cli.py 857-858: a message was typed; _in_status = True
LoopSetsInStatus ==
    /\ sig_loop = "input"
    /\ sig_in_status' = TRUE
    /\ sig_loop' = "flagged"
    /\ UNCHANGED <<sig_now, sig_last, sig_cleanup_timer, sig_timers, sig_made,
                   sig_call, sig_handler, sig_out, sig_tap>>
    /\ UNCHANGED except_signal_vars

\* cli.py 861-871: status.start() and the provider call of orchestrator.chat
LoopStartsChat ==
    /\ sig_loop = "flagged"
    /\ sig_loop' = "chatting"
    /\ sig_call' = "in_flight"
    /\ UNCHANGED <<sig_now, sig_last, sig_cleanup_timer, sig_timers, sig_made,
                   sig_in_status, sig_handler, sig_out, sig_tap>>
    /\ UNCHANGED except_signal_vars

\* cli.py 871-874: the call comes back and status.stop() runs
LoopStopsStatus ==
    /\ sig_loop = "chatting"
    /\ sig_loop' = "stopped"
    /\ sig_call' = "none"
    /\ UNCHANGED <<sig_now, sig_last, sig_cleanup_timer, sig_timers, sig_made,
                   sig_in_status, sig_handler, sig_out, sig_tap>>
    /\ UNCHANGED except_signal_vars

\* cli.py 875-884: _in_status = False, the answer is shown, the prompt is back
LoopClearsInStatus ==
    /\ sig_loop = "stopped"
    /\ sig_in_status' = FALSE
    /\ sig_loop' = "input"
    /\ UNCHANGED <<sig_now, sig_last, sig_cleanup_timer, sig_timers, sig_made,
                   sig_call, sig_handler, sig_out, sig_tap>>
    /\ UNCHANGED except_signal_vars

NextSigint ==
    \/ SigTick
    \/ sigint
    \/ \E t \in sig_timers : ClearChecks(t)
    \/ \E t \in sig_timers : ClearWrites(t)
    \/ LoopSetsInStatus
    \/ LoopStartsChat
    \/ LoopStopsStatus
    \/ LoopClearsInStatus

SpecSigint == Init /\ [][NextSigint]_vars

(***************************************************************************)
(* todo_write (tools/todo_tools.py) over TodoManager (tools/todo_manager.py)*)
(***************************************************************************)
Whitespace == " \t\n"

WordChars == "abcdefghijklmnopqrstuvwxyzABCDEFGHIJKLMNOPQRSTUVWXYZ0123456789_"

IsIn(c, chars) == \E k \in 1..Len(chars) : SubSeq(chars, k, k) = c

RECURSIVE LStrip(_)
LStrip(str) ==
    IF Len(str) > 0 /\ IsIn(SubSeq(str, 1, 1), Whitespace)
    THEN LStrip(SubSeq(str, 2, Len(str)))
    ELSE str

RECURSIVE RStrip(_)
RStrip(str) ==
    IF Len(str) > 0 /\ IsIn(SubSeq(str, Len(str), Len(str)), Whitespace)
    THEN RStrip(SubSeq(str, 1, Len(str) - 1))
    ELSE str

\* str.strip
Strip(str) == RStrip(LStrip(str))

\* str.startswith
StartsWith(str, prefix) ==
    Len(str) >= Len(prefix) /\ SubSeq(str, 1, Len(prefix)) = prefix

\* todo_tools.py 392-395
prefixes_to_remove ==
    << "todo:", "task:", "step:", "action:", "next:", "now:", "please",
       "need to", "should", "must", "will", "going to", "plan to" >>

\* todo_tools.py 397-399: one pass over the prefixes, in their order
RECURSIVE RemovePrefixes(_, _)
RemovePrefixes(str, k) ==
    IF k > Len(prefixes_to_remove) THEN str
    ELSE LET prefix == prefixes_to_remove[k]
         IN  RemovePrefixes(IF StartsWith(str, prefix)
                            THEN Strip(SubSeq(str, Len(prefix) + 1, Len(str)))
                            ELSE str,
                            k + 1)

\* re.sub(r'[^\w\s]', ' ', str)
RECURSIVE ReplacePunctuation(_)
ReplacePunctuation(str) ==
    IF Len(str) = 0 THEN ""
    ELSE LET c == SubSeq(str, 1, 1)
         IN  (IF IsIn(c, WordChars) \/ IsIn(c, Whitespace) THEN c ELSE " ")
                \o ReplacePunctuation(SubSeq(str, 2, Len(str)))

\* re.sub(r'\s+', ' ', str)
RECURSIVE CollapseSpaces(_)
CollapseSpaces(str) ==
    IF Len(str) = 0 THEN ""
    ELSE IF IsIn(SubSeq(str, 1, 1), Whitespace)
    THEN " " \o CollapseSpaces(LStrip(str))
    ELSE SubSeq(str, 1, 1) \o CollapseSpaces(SubSeq(str, 2, Len(str)))

\* todo_tools.py 380-406
normalize_todo_content(content) ==
    Strip(CollapseSpaces(ReplacePunctuation(RemovePrefixes(Strip(Lower(content)), 1))))

WordEnd(str) ==
    IF \E k \in 1..Len(str) : IsIn(SubSeq(str, k, k), Whitespace)
    THEN (CHOOSE k \in 1..Len(str) :
            /\ IsIn(SubSeq(str, k, k), Whitespace)
            /\ \A j \in 1..(k - 1) : ~IsIn(SubSeq(str, j, j), Whitespace)) - 1
    ELSE Len(str)

\* set(str.split())
RECURSIVE Words(_)
Words(str) ==
    LET rest == LStrip(str)
    IN  IF Len(rest) = 0 THEN {}
        ELSE {SubSeq(rest, 1, WordEnd(rest))}
                \cup Words(SubSeq(rest, WordEnd(rest) + 1, Len(rest)))

\* A similarity is a fraction <<numerator, denominator>>.
Greater(a, b) == a[1] * b[2] > b[1] * a[2]

\* max(a, b)
Larger(a, b) == IF Greater(b, a) THEN b ELSE a

Smaller(a, b) == IF a <= b THEN a ELSE b

\* todo_tools.py 430-434
jaccard_similarity(words1, words2) ==
    <<Cardinality(words1 \cap words2), Cardinality(words1 \cup words2)>>

\* todo_tools.py 436-437
subset_similarity(words1, words2) ==
    <<Cardinality(words1 \cap words2),
      Smaller(Cardinality(words1), Cardinality(words2))>>

\* similarity * 0.9
NineTenths(similarity) == <<9 * similarity[1], 10 * similarity[2]>>

\* todo_tools.py 409-440
calculate_content_similarity(content1, content2) ==
    LET norm1 == normalize_todo_content(content1)
        norm2 == normalize_todo_content(content2)
        words1 == Words(norm1)
        words2 == Words(norm2)
    IN  IF norm1 = norm2 THEN <<1, 1>>
        ELSE IF words1 = {} \/ words2 = {} THEN <<0, 1>>
        ELSE Larger(jaccard_similarity(words1, words2),
                    NineTenths(subset_similarity(words1, words2)))

\* todo_tools.py 192: 0.75
similarity_threshold == <<3, 4>>

\* similarity >= 0.75
reaches_threshold(similarity) == ~Greater(similarity_threshold, similarity)

\* todo_tools.py 192: similarity > 0.75
above_threshold(similarity) == Greater(similarity, similarity_threshold)

\* the text of the entries the model writes
EntryContents ==
    { "Fix the login bug", "TODO: fix the login bug!", "fix the login page",
      " fix login bug ", "fix ui db api cli log", "fix ui db api cli doc", "  " }

\* todo_tools.py 131: content.strip(), as a table
StrippedTable == {<<content, Strip(content)>> : content \in EntryContents}

Stripped(content) == (CHOOSE row \in StrippedTable : row[1] = content)[2]

Contents == {row[2] : row \in StrippedTable}

\* normalize_todo_content and calculate_content_similarity over Contents,
\* as tables
NormalizedTable == {<<content, normalize_todo_content(content)>> : content \in Contents}

SimilarityTable ==
    {<<pair[1], pair[2], calculate_content_similarity(pair[1], pair[2])>> :
        pair \in Contents \X Contents}

Normalized(content) == (CHOOSE row \in NormalizedTable : row[1] = content)[2]

Similarity(content1, content2) ==
    (CHOOSE row \in SimilarityTable : row[1] = content1 /\ row[2] = content2)[3]

SessionIds == {NoSessionId, "s1"}

TodoItem(id, content, todo_status, priority, session_id) ==
    [id |-> id, content |-> content, status |-> todo_status, priority |-> priority,
     session_id |-> session_id]

\* json.dump of the list: one chunk per item and the closing bracket
EndOfList == [id |-> 0, content |-> "]", status |-> "", priority |-> "", session_id |-> ""]

FileOf(todos) == todos \o <<EndOfList>>

\* json.load: a document is the items up to the closing bracket, and nothing
\* may follow it
Parses(chunks) ==
    /\ Len(chunks) > 0
    /\ chunks[Len(chunks)] = EndOfList
    /\ \A k \in 1..(Len(chunks) - 1) : chunks[k] # EndOfList

\* todo_manager.py 109-121: _load_todos
load_todos(file) ==
    IF ~file.exists THEN <<>>
    ELSE IF Parses(file.chunks) THEN SubSeq(file.chunks, 1, Len(file.chunks) - 1)
    ELSE <<>>

\* todo_manager.py 145-164: get_current_session_todos
get_current_session_todos(todos, session_id) ==
    IF session_id = NoSessionId THEN todos
    ELSE SelectSeq(todos, LAMBDA t : t.session_id = session_id)

\* todo_manager.py 193-198: 0 stands for None
get_todo_by_id(todos, todo_id) ==
    IF \E k \in 1..Len(todos) : todos[k].id = todo_id
    THEN todos[CHOOSE k \in 1..Len(todos) :
                 /\ todos[k].id = todo_id
                 /\ \A j \in 1..(k - 1) : todos[j].id # todo_id].id
    ELSE 0

\* todo_manager.py 166-173 with TodoItem.update (61-66)
update_todo(todos, todo_id, content, todo_status, priority) ==
    IF get_todo_by_id(todos, todo_id) = 0 THEN todos
    ELSE LET k == CHOOSE k \in 1..Len(todos) :
                    /\ todos[k].id = todo_id
                    /\ \A j \in 1..(k - 1) : todos[j].id # todo_id
         IN  [todos EXCEPT ![k] = TodoItem(todo_id, content, todo_status, priority,
                                           todos[k].session_id)]

\* todo_manager.py 134-143 and todo_tools.py 165-168 / 211-214: add_todo, then
\* the status when it is not pending
add_todo(todos, new_id, content, todo_status, priority, session_id) ==
    Append(todos, TodoItem(new_id, content, todo_status, priority, session_id))

\* todo_tools.py 179-184: the first todo whose normalized content is equal
RECURSIVE ExactMatch(_, _, _)
ExactMatch(existing_todos, normalized_content, k) ==
    IF k > Len(existing_todos) THEN 0
    ELSE IF Normalized(existing_todos[k].content) = normalized_content
    THEN existing_todos[k].id
    ELSE ExactMatch(existing_todos, normalized_content, k + 1)

\* todo_tools.py 187-197: the scan for the most similar todo
RECURSIVE BestMatch(_, _, _, _, _)
BestMatch(existing_todos, content, k, best_match, best_similarity) ==
    IF k > Len(existing_todos) THEN best_match
    ELSE LET similarity == Similarity(content, existing_todos[k].content)
         IN  IF above_threshold(similarity) /\ Greater(similarity, best_similarity)
             THEN BestMatch(existing_todos, content, k + 1,
                            existing_todos[k].id, similarity)
             ELSE BestMatch(existing_todos, content, k + 1,
                            best_match, best_similarity)

\* todo_tools.py 170-197: the todo an entry without id matches, and how
matching_todo(existing_todos, content) ==
    LET exact == ExactMatch(existing_todos, Normalized(content), 1)
        best == BestMatch(existing_todos, content, 1, 0, <<0, 1>>)
    IN  IF exact # 0 THEN [id |-> exact, how |-> "updated_equal"]
        ELSE [id |-> best, how |-> "updated_similar"]

\* todo_tools.py 128-217: one round of the loop over the entries.  The
\* result is what the manager holds afterwards and what was done.
ProcessEntry(todos, session_id, new_id, entry) ==
    LET content == Stripped(entry.content)
        by_id == get_todo_by_id(todos, entry.id)
        matching == matching_todo(get_current_session_todos(todos, session_id), content)
        target == IF entry.id # 0 THEN by_id ELSE matching.id
    IN  IF content = ""
        THEN [todos |-> todos, kind |-> "error", target |-> 0]
        ELSE IF target # 0
        THEN [todos |-> update_todo(todos, target, content, entry.status,
                                    entry.priority),
              kind |-> IF entry.id # 0 THEN "updated_by_id" ELSE matching.how,
              target |-> target]
        ELSE [todos |-> add_todo(todos, new_id, content, entry.status,
                                 entry.priority, session_id),
              kind |-> "created", target |-> new_id]

\* todo_tools.py 117-126: TodoManager(session_id=session_id) loads the store
TodoWriteCalled(session_id) ==
    /\ td_pc = "idle"
    /\ td_pc' = "loop"
    /\ td_session' = session_id
    /\ td_todos' = load_todos(td_file)
    /\ td_op' = NoTodoOp
    /\ UNCHANGED <<td_file, td_made, td_mgr, td_saved>>
    /\ UNCHANGED except_todo_vars

\* todo_tools.py 128-220: the next entry of the list; every change is saved
TodoWriteEntry(entry) ==
    /\ td_pc = "loop"
    /\ LET done == ProcessEntry(td_todos, td_session, td_made + 1, entry)
       IN  /\ done.kind = "created" => td_made < MaxTodos
           /\ td_todos' = done.todos
           /\ td_made' = IF done.kind = "created" THEN td_made + 1 ELSE td_made
           /\ td_op' = [kind |-> done.kind, target |-> done.target,
                        by_id |-> entry.id # 0, content |-> Stripped(entry.content)]
           /\ td_file' = IF done.kind = "error" THEN td_file
                         ELSE [exists |-> TRUE, chunks |-> FileOf(done.todos)]
    /\ UNCHANGED <<td_pc, td_session, td_mgr, td_saved>>
    /\ UNCHANGED except_todo_vars

\* todo_tools.py 222-256: the list is over and the summary is returned
TodoWriteReturns ==
    /\ td_pc = "loop"
    /\ td_pc' = "idle"
    /\ UNCHANGED <<td_file, td_made, td_session, td_todos, td_op, td_mgr, td_saved>>
    /\ UNCHANGED except_todo_vars

Entries ==
    { [id |-> id, content |-> content, status |-> todo_status, priority |-> "medium"] :
        id \in {0, 1}, content \in EntryContents, todo_status \in {"pending"} }

NextTodoWrite ==
    \/ \E session_id \in SessionIds : TodoWriteCalled(session_id)
    \/ \E entry \in Entries : TodoWriteEntry(entry)
    \/ TodoWriteReturns

SpecTodoWrite == Init /\ [][NextTodoWrite]_vars

(***************************************************************************)
(* The summary of todo_write (tools/todo_tools.py 128-256): how many       *)
(* entries it reports as created, updated and completed                    *)
(***************************************************************************)
\* todo_tools.py 140-144
valid_status(todo_status) ==
    IF todo_status \in {"pending", "in_progress", "completed"} THEN todo_status
    ELSE "pending"

\* the TodoItem with this id
ItemById(todos, todo_id) ==
    todos[CHOOSE k \in 1..Len(todos) :
            /\ todos[k].id = todo_id
            /\ \A j \in 1..(k - 1) : todos[j].id # todo_id]

\* todo_tools.py 150-162 and 199-211: existing_todo is the TodoItem that
\* update_todo has just changed in place, so its status is read after the
\* update
completed_on_update(todos_after, target, todo_status) ==
    todo_status = "completed" /\ ItemById(todos_after, target).status # "completed"

\* todo_tools.py 169-170 and 218-219
completed_on_create(todo_status) == todo_status = "completed"

CountedEntries ==
    { [id |-> id, content |-> content, status |-> todo_status, priority |-> "medium"] :
        id \in {0, 1},
        content \in {"Fix the login bug", "TODO: fix the login bug!", "fix the login page", "  "},
        todo_status \in {"pending", "completed", "done"} }

\* todo_tools.py 117-127: a call starts with its counters at zero
TodoCountCalled ==
    /\ tc_pc \in {"idle", "returned"}
    /\ tc_pc' = "loop"
    /\ tc_n' = 0
    /\ tc_result' = Counts(0, 0, 0)
    /\ tc_truth' = Counts(0, 0, 0)
    /\ UNCHANGED <<tc_todos, tc_made>>
    /\ UNCHANGED except_count_vars

\* 1 for True, 0 for False
Plus(b) == IF b THEN 1 ELSE 0

\* todo_tools.py 128-221: one entry is processed and counted
TodoCountEntry(entry) ==
    /\ tc_pc = "loop"
    /\ tc_n < MaxEntries
    /\ \E todo_status \in {valid_status(entry.status)} :
       \E done \in {ProcessEntry(tc_todos, "s1", tc_made + 1,
                                 [entry EXCEPT !.status = todo_status])} :
       \E created \in {done.kind = "created"}, updated \in {done.kind \notin {"created", "error"}} :
       LET counted ==
               \/ created /\ completed_on_create(todo_status)
               \/ updated /\ completed_on_update(done.todos, done.target, todo_status)
           became ==
               /\ created \/ updated
               /\ ItemById(done.todos, done.target).status = "completed"
               /\ updated => ItemById(tc_todos, done.target).status # "completed"
       IN  /\ created => tc_made < MaxTodos
           /\ tc_todos' = done.todos
           /\ tc_made' = tc_made + Plus(created)
           /\ tc_result' = Counts(tc_result.created + Plus(created),
                                  tc_result.updated + Plus(updated),
                                  tc_result.completed + Plus(counted))
           /\ tc_truth' = Counts(tc_truth.created + Plus(Len(done.todos) > Len(tc_todos)),
                                 tc_truth.updated
                                    + Plus(done.kind # "error" /\ Len(done.todos) = Len(tc_todos)),
                                 tc_truth.completed + Plus(became))
    /\ tc_n' = tc_n + 1
    /\ UNCHANGED tc_pc
    /\ UNCHANGED except_count_vars

\* todo_tools.py 222-256: the summary is returned
TodoCountReturns ==
    /\ tc_pc = "loop"
    /\ tc_pc' = "returned"
    /\ UNCHANGED <<tc_todos, tc_made, tc_n, tc_result, tc_truth>>
    /\ UNCHANGED except_count_vars

NextTodoCount ==
    \/ TodoCountCalled
    \/ \E entry \in CountedEntries : TodoCountEntry(entry)
    \/ TodoCountReturns

SpecTodoCount == Init /\ [][NextTodoCount]_vars

(***************************************************************************)
(* TodoManagers of songbird processes started in the same project: each    *)
(* loads todos.json when it is made and rewrites it after every change     *)
(* (tools/todo_manager.py 68-190).                                         *)
(***************************************************************************)
\* write(data) at offset 0 of a file that holds chunks
WriteAtStart(chunks, data) == data \o SubSeq(chunks, Len(data) + 1, Len(chunks))

\* todo_manager.py 123-126: open(storage_path, 'w') empties the file
OpenForWriting == [exists |-> TRUE, chunks |-> <<>>]

\* todo_manager.py 71-76: TodoManager() loads the store
ManagerCreated(m) ==
    /\ td_mgr[m].pc = "none"
    /\ td_mgr' = [td_mgr EXCEPT ![m] = [pc |-> "ready", todos |-> load_todos(td_file)]]
    /\ UNCHANGED <<td_file, td_made, td_pc, td_session, td_todos, td_op, td_saved>>
    /\ UNCHANGED except_todo_vars

\* todo_manager.py 134-143 and 123-126: add_todo appends and _save_todos
\* opens the file
ManagerAddsTodo(m, content) ==
    /\ td_mgr[m].pc = "ready"
    /\ td_made < MaxTodos
    /\ td_made' = td_made + 1
    /\ td_mgr' = [td_mgr EXCEPT ![m] =
                    [pc |-> "saving",
                     todos |-> add_todo(td_mgr[m].todos, td_made + 1, content,
                                        "pending", "medium", NoSessionId)]]
    /\ td_file' = OpenForWriting
    /\ UNCHANGED <<td_pc, td_session, td_todos, td_op, td_saved>>
    /\ UNCHANGED except_todo_vars

\* todo_manager.py 166-177: complete_todo; a todo that is not in the list
\* changes nothing and nothing is saved
ManagerCompletesTodo(m, todo_id) ==
    /\ td_mgr[m].pc = "ready"
    /\ IF get_todo_by_id(td_mgr[m].todos, todo_id) = 0
       THEN UNCHANGED <<td_mgr, td_file>>
       ELSE /\ td_mgr' = [td_mgr EXCEPT ![m] =
                           [pc |-> "saving",
                            todos |-> LET k == CHOOSE k \in 1..Len(td_mgr[m].todos) :
                                                 td_mgr[m].todos[k].id = todo_id
                                      IN  [td_mgr[m].todos EXCEPT
                                              ![k].status = "completed"]]]
            /\ td_file' = OpenForWriting
    /\ UNCHANGED <<td_made, td_pc, td_session, td_todos, td_op, td_saved>>
    /\ UNCHANGED except_todo_vars

\* todo_manager.py 126-127: json.dump and the close of the file put the
\* text at the start of the file
ManagerDumps(m) ==
    /\ td_mgr[m].pc = "saving"
    /\ td_file' = [exists |-> TRUE,
                   chunks |-> WriteAtStart(td_file.chunks, FileOf(td_mgr[m].todos))]
    /\ td_mgr' = [td_mgr EXCEPT ![m].pc = "ready"]
    /\ td_saved' = [by |-> m, todos |-> td_mgr[m].todos]
    /\ UNCHANGED <<td_made, td_pc, td_session, td_todos, td_op>>
    /\ UNCHANGED except_todo_vars

\* the manager is not used any more
ManagerDropped(m) ==
    /\ td_mgr[m].pc = "ready"
    /\ td_mgr' = [td_mgr EXCEPT ![m] = [pc |-> "none", todos |-> <<>>]]
    /\ UNCHANGED <<td_file, td_made, td_pc, td_session, td_todos, td_op, td_saved>>
    /\ UNCHANGED except_todo_vars

NextTodoStore ==
    \/ \E m \in Managers : ManagerCreated(m)
    \/ \E m \in Managers, content \in {"Fix the login bug", "fix the login page"} :
            ManagerAddsTodo(m, content)
    \/ \E m \in Managers, todo_id \in 1..MaxTodos : ManagerCompletesTodo(m, todo_id)
    \/ \E m \in Managers : ManagerDumps(m)
    \/ \E m \in Managers : ManagerDropped(m)

SpecTodoStore == Init /\ [][NextTodoStore]_vars

(***************************************************************************)
(* BaseModelDiscovery (discovery/model_discovery.py 43-133) called by      *)
(* tasks of one event loop                                                 *)
(***************************************************************************)
\* what a provider can answer to _discover_models
DiscoveredLists == { <<>>, <<"gpt-4o">>, <<"gpt-4o", "gpt-4o-mini">> }

\* model_discovery.py 58-93, for the provider openai
get_fallback_models == <<"gpt-4o", "gpt-4o-mini", "gpt-4-turbo", "gpt-3.5-turbo">>

\* the cache never expires
cache_not_empty(cache, timestamp, now) == cache # <<>>

\* model_discovery.py 124-128: _is_cache_valid
is_cache_valid(cache, timestamp, now) ==
    IF cache = <<>> THEN FALSE ELSE now - timestamp < cache_ttl

DiscoveryReturned(t, use_cache, discovered, succeeded, value) ==
    [task |-> t, use_cache |-> use_cache, discovered |-> discovered,
     succeeded |-> succeeded, value |-> value]

\* time.time() moves on
ClockTick ==
    /\ md_now < Epoch + MaxTicks * TickSeconds
    /\ md_now' = md_now + TickSeconds
    /\ UNCHANGED <<md_cache, md_cache_timestamp, md_call, md_ret, md_source>>
    /\ UNCHANGED except_discovery_vars

\* model_discovery.py 95-104: the cached list is returned, or the discovery
\* is started and awaited
discover_models(t, use_cache) ==
    /\ md_call[t].pc = "idle"
    /\ IF use_cache /\ is_cache_valid(md_cache, md_cache_timestamp, md_now)
       THEN /\ md_ret' = DiscoveryReturned(t, use_cache, FALSE, FALSE, md_cache)
            /\ UNCHANGED md_call
       ELSE /\ md_call' = [md_call EXCEPT ![t] =
                              [pc |-> "discovering", use_cache |-> use_cache]]
            /\ UNCHANGED md_ret
    /\ UNCHANGED <<md_now, md_cache, md_cache_timestamp, md_source>>
    /\ UNCHANGED except_discovery_vars

\* model_discovery.py 104-112: the discovery answers within the timeout
DiscoverySucceeds(t, models) ==
    /\ md_call[t].pc = "discovering"
    /\ md_cache' = models
    /\ md_cache_timestamp' = md_now
    /\ md_ret' = DiscoveryReturned(t, md_call[t].use_cache, TRUE, TRUE, models)
    /\ md_call' = [md_call EXCEPT ![t] = NoDiscoveryCall]
    /\ md_source' = "live"
    /\ UNCHANGED md_now
    /\ UNCHANGED except_discovery_vars

\* model_discovery.py 136-181 with 104-112: OpenAIModelDiscovery's
\* _discover_models finds no OPENAI_API_KEY, or catches the exception of the
\* API call, and returns the fallback list as its result
DiscoveryFallsBack(t) ==
    /\ md_call[t].pc = "discovering"
    /\ md_cache' = get_fallback_models
    /\ md_cache_timestamp' = md_now
    /\ md_ret' = DiscoveryReturned(t, md_call[t].use_cache, TRUE, TRUE,
                                   get_fallback_models)
    /\ md_call' = [md_call EXCEPT ![t] = NoDiscoveryCall]
    /\ md_source' = "fallback"
    /\ UNCHANGED md_now
    /\ UNCHANGED except_discovery_vars

\* model_discovery.py 114-122: the discovery times out or raises
DiscoveryFails(t) ==
    /\ md_call[t].pc = "discovering"
    /\ md_ret' = DiscoveryReturned(t, md_call[t].use_cache, TRUE, FALSE,
                                   get_fallback_models)
    /\ md_call' = [md_call EXCEPT ![t] = NoDiscoveryCall]
    /\ UNCHANGED <<md_now, md_cache, md_cache_timestamp, md_source>>
    /\ UNCHANGED except_discovery_vars

\* model_discovery.py 130-133
invalidate_cache ==
    /\ md_cache' = <<>>
    /\ md_cache_timestamp' = 0
    /\ md_source' = "none"
    /\ UNCHANGED <<md_now, md_call, md_ret>>
    /\ UNCHANGED except_discovery_vars

NextDiscovery ==
    \/ ClockTick
    \/ \E t \in Callers, use_cache \in BOOLEAN : discover_models(t, use_cache)
    \/ \E t \in Callers, models \in DiscoveredLists : DiscoverySucceeds(t, models)
    \/ \E t \in Callers : DiscoveryFallsBack(t)
    \/ \E t \in Callers : DiscoveryFails(t)
    \/ invalidate_cache

SpecDiscovery == Init /\ [][NextDiscovery]_vars

(***************************************************************************)
(* Tool messages: json.dumps of what a tool call returned                  *)
(* (conversation.py 258-339)                                               *)
(***************************************************************************)
RECURSIVE ValuesTo(_)
\* the values a tool may put in a field of its result, nested to depth d:
\* a string, a rich Text, a list of up to two values, a dict of one key
ValuesTo(d) ==
    IF d = 0
    THEN {Str("normal"), RichText("rich")}
    ELSE LET inner == ValuesTo(d - 1)
         IN  {Str("normal"), RichText("rich"), PyList(<<>>)}
                \cup {PyList(<<v>>) : v \in inner}
                \cup {PyList(<<v, w>>) : v \in inner, w \in inner}
                \cup {PyDict(<<Pair("nested", v)>>) : v \in inner}

\* what execute_tool hands back: the tool's own dict under "result", or the
\* error of a tool that raised
ToolWrappers ==
    {[success |-> TRUE, has_result |-> TRUE, error |-> "",
      result |-> PyDict(<<Pair("success", Bool(ok)), Pair("message", Str("done")),
                          Pair("content", v)>>)] :
        ok \in BOOLEAN, v \in ValuesTo(MaxDepth)}
    \cup {[success |-> FALSE, has_result |-> FALSE, error |-> "Unknown tool",
           result |-> NoValue]}

\* the wrapper as the dict it is
WrapperValue(w) ==
    PyDict(<<Pair("success", Bool(w.success))>>
            \o (IF w.has_result THEN <<Pair("result", w.result)>> ELSE <<>>)
            \o (IF w.error # "" THEN <<Pair("error", Str(w.error))>> ELSE <<>>))

RECURSIVE JsonNative(_)
\* whether json's default encoder takes the value: str, bool, list and dict
\* (of such values) are encoded, any other object makes it raise TypeError
JsonNative(v) ==
    CASE v.kind \in {"str", "bool"} -> TRUE
      [] v.kind = "list" -> \A k \in 1..Len(v.items) : JsonNative(v.items[k])
      [] v.kind = "dict" -> \A k \in 1..Len(v.items) : JsonNative(v.items[k].value)
      [] OTHER -> FALSE

RECURSIVE Encoded(_)
RECURSIVE EncodedItems(_, _)
\* the items of a list or a dict, separated by ", "
EncodedItems(items, is_dict) ==
    IF items = <<>> THEN ""
    ELSE (IF is_dict
          THEN "\"" \o Head(items).key \o "\": " \o Encoded(Head(items).value)
          ELSE Encoded(Head(items)))
         \o (IF Len(items) > 1 THEN ", " ELSE "")
         \o EncodedItems(Tail(items), is_dict)

\* the text json.dumps makes of a value it takes
Encoded(v) ==
    CASE v.kind = "str" -> "\"" \o v.text \o "\""
      [] v.kind = "bool" -> v.text
      [] v.kind = "list" -> "[" \o EncodedItems(v.items, FALSE) \o "]"
      [] v.kind = "dict" -> "{" \o EncodedItems(v.items, TRUE) \o "}"

json_dumps(v) ==
    IF JsonNative(v)
    THEN [raised |-> "", text |-> Encoded(v)]
    ELSE [raised |-> "TypeError", text |-> ""]

\* conversation.py 258-281: the result of a tool call is put in tool_results
ToolResultCollected(w) ==
    /\ js_pc = "idle"
    /\ js_result' = w
    /\ js_pc' = "collected"
    /\ UNCHANGED js_content
    /\ UNCHANGED except_json_vars

\* conversation.py 318-330: the tool message of the result; json.dumps is
\* given what the tool returned as it is
AppendToolMessage ==
    /\ js_pc = "collected"
    /\ LET wrapped_result == js_result
           actual_result == IF wrapped_result.success
                            THEN wrapped_result.result
                            ELSE WrapperValue(wrapped_result)
           dumped == json_dumps(actual_result)
       IN  IF dumped.raised # ""
           THEN /\ js_pc' = "raised_" \o dumped.raised
                /\ UNCHANGED js_content
           ELSE /\ js_pc' = "appended"
                /\ js_content' = dumped.text
    /\ UNCHANGED js_result
    /\ UNCHANGED except_json_vars

NextJson ==
    \/ \E w \in ToolWrappers : ToolResultCollected(w)
    \/ AppendToolMessage

SpecJson == Init /\ [][NextJson]_vars

(***************************************************************************)
(* A file_edit tool call on the file system: _handle_file_edit             *)
(* (conversation.py 653-739) with file_edit and apply_file_edit            *)
(* (tools/file_operations.py 91-195)                                       *)
(***************************************************************************)
RECURSIVE ReadText(_)
\* open(path, 'r', encoding='utf-8').read(): universal newlines, "CR LF" and a
\* lone "CR" both arrive as "LF"
ReadText(content) ==
    IF content = <<>> THEN <<>>
    ELSE IF Head(content) = "CR"
    THEN IF Len(content) > 1 /\ content[2] = "LF"
         THEN <<"LF">> \o ReadText(Tail(Tail(content)))
         ELSE <<"LF">> \o ReadText(Tail(content))
    ELSE <<Head(content)>> \o ReadText(Tail(content))

\* os.linesep on POSIX
linesep == <<"LF">>

RECURSIVE WriteText(_)
\* what f.write(text) puts in a file opened with 'w': "LF" goes out as
\* os.linesep, anything else as it is
WriteText(text) ==
    IF text = <<>> THEN <<>>
    ELSE (IF Head(text) = "LF" THEN linesep ELSE <<Head(text)>>) \o WriteText(Tail(text))

\* whether the bytes are UTF-8
Decodable(content) == \A k \in 1..Len(content) : content[k] # "0xFF"

Prefix(text, n) == SubSeq(text, 1, n)

\* what may be at the target path before the call
TargetContents ==
    {<<>>, <<"a", "LF">>, <<"a", "CR", "LF">>, <<"a", "LF", "b", "LF">>, <<"0xFF">>}

Targets == {Absent, Directory} \cup {RegularFile(c) : c \in TargetContents}

\* the .bak sibling before the call: none, or one an earlier edit left
Siblings == {Absent, RegularFile(<<"z", "LF">>)}

NewContents == {<<>>, <<"a", "LF">>, <<"a", "LF", "b", "LF">>, <<"b">>}

\* the state of the directory when the model calls file_edit
FilesArranged(target, sibling) ==
    /\ fe_pc = "start"
    /\ fe_file' = target
    /\ fe_bak' = sibling
    /\ fe_pc' = "idle"
    /\ UNCHANGED <<fe_args, fe_preview, fe_apply, fe_result, fe_call>>
    /\ UNCHANGED except_edit_vars

\* file_operations.py 104-122: the text the preview compares with
old_content(target) ==
    IF target.kind = "file" THEN ReadText(target.content) ELSE <<>>

\* file_operations.py 108-122: a path that exists must be a file that decodes
PreviewReadable(target) ==
    \/ target.kind = "absent"
    \/ target.kind = "file" /\ Decodable(target.content)

\* conversation.py 655-670, file_operations.py 91-153: the preview is made; a
\* failed preview and a preview without changes return at once
FileEditPreviewed(new_content, create_backup) ==
    /\ fe_pc = "idle"
    /\ fe_args' = [new_content |-> new_content, create_backup |-> create_backup]
    /\ fe_call' = [file |-> fe_file, bak |-> fe_bak]
    /\ LET preview == file_edit(old_content(fe_file), new_content, PreviewReadable(fe_file))
       IN  /\ fe_preview' = preview
           /\ IF ~preview.success
              THEN /\ fe_result' = execute_tool(preview)
                   /\ fe_pc' = "returned"
              ELSE IF ~preview.changes_made
              THEN /\ fe_result' = NoChangesResult
                   /\ fe_pc' = "returned"
              ELSE /\ fe_pc' = "confirm"
                   /\ UNCHANGED fe_result
    /\ UNCHANGED <<fe_file, fe_bak, fe_apply>>
    /\ UNCHANGED except_edit_vars

\* conversation.py 681-706 and 723-730: the answer at the prompt ("Yes" also
\* stands for SONGBIRD_AUTO_APPLY=y, "None" for a cancelled menu);
\* apply_file_edit is called with the path and the new content only
ConfirmAnswered(answer) ==
    /\ fe_pc = "confirm"
    /\ IF answer = "Yes"
       THEN /\ fe_pc' = "apply"
            /\ fe_apply' = [file_existed |-> FALSE, create_backup |-> TRUE, text |-> <<>>]
            /\ UNCHANGED fe_result
       ELSE /\ fe_pc' = "returned"
            /\ fe_result' = CancelledResult
            /\ UNCHANGED fe_apply
    /\ UNCHANGED <<fe_file, fe_bak, fe_args, fe_preview, fe_call>>
    /\ UNCHANGED except_edit_vars

\* file_operations.py 191-195 with conversation.py 718-722
ApplyRaised ==
    AppliedResult(Dict(FALSE, "", "Error applying file edit"))

\* file_operations.py 169-173
ApplyChecksExists ==
    /\ fe_pc = "apply"
    /\ fe_apply' = [fe_apply EXCEPT !.file_existed = (fe_file.kind # "absent")]
    /\ fe_pc' = IF fe_apply.create_backup /\ fe_file.kind # "absent"
                THEN "backup_read" ELSE "open_target"
    /\ UNCHANGED <<fe_file, fe_bak, fe_args, fe_preview, fe_result, fe_call>>
    /\ UNCHANGED except_edit_vars

\* file_operations.py 175: path.read_text
BackupReads ==
    /\ fe_pc = "backup_read"
    /\ IF fe_file.kind = "file" /\ Decodable(fe_file.content)
       THEN /\ fe_apply' = [fe_apply EXCEPT !.text = ReadText(fe_file.content)]
            /\ fe_pc' = "backup_open"
            /\ UNCHANGED fe_result
       ELSE /\ fe_result' = ApplyRaised
            /\ fe_pc' = "returned"
            /\ UNCHANGED fe_apply
    /\ UNCHANGED <<fe_file, fe_bak, fe_args, fe_preview, fe_call>>
    /\ UNCHANGED except_edit_vars

\* file_operations.py 175: backup_path.write_text opens the sibling for
\* writing, which leaves it empty
BackupOpens ==
    /\ fe_pc = "backup_open"
    /\ fe_bak' = RegularFile(<<>>)
    /\ fe_pc' = "backup_write"
    /\ UNCHANGED <<fe_file, fe_args, fe_preview, fe_apply, fe_result, fe_call>>
    /\ UNCHANGED except_edit_vars

\* file_operations.py 175: the text is written and the sibling closed
BackupWrites ==
    /\ fe_pc = "backup_write"
    /\ fe_bak' = RegularFile(WriteText(fe_apply.text))
    /\ fe_pc' = "open_target"
    /\ UNCHANGED <<fe_file, fe_args, fe_preview, fe_apply, fe_result, fe_call>>
    /\ UNCHANGED except_edit_vars

\* file_operations.py 178-181: open(path, 'w') leaves the target empty
TargetOpens ==
    /\ fe_pc = "open_target"
    /\ IF fe_file.kind = "dir"
       THEN /\ fe_result' = ApplyRaised
            /\ fe_pc' = "returned"
            /\ UNCHANGED fe_file
       ELSE /\ fe_file' = RegularFile(<<>>)
            /\ fe_pc' = "write_target"
            /\ UNCHANGED fe_result
    /\ UNCHANGED <<fe_bak, fe_args, fe_preview, fe_apply, fe_call>>
    /\ UNCHANGED except_edit_vars

\* file_operations.py 182-189 with conversation.py 708-717: the new content
\* is written, the file closed and the result returned
TargetWrites ==
    /\ fe_pc = "write_target"
    /\ fe_file' = RegularFile(WriteText(fe_args.new_content))
    /\ fe_result' = AppliedResult(Dict(TRUE,
            IF fe_apply.file_existed THEN "File updated successfully"
            ELSE "File created successfully", ""))
    /\ fe_pc' = "returned"
    /\ UNCHANGED <<fe_bak, fe_args, fe_preview, fe_apply, fe_call>>
    /\ UNCHANGED except_edit_vars

\* a write that raises OSError (a full disk, a failing device) after n
\* characters reached the file; file_operations.py 191-195 turns it into a
\* result
WriteFails(n) ==
    /\ fe_pc \in {"backup_write", "write_target"}
    /\ IF fe_pc = "backup_write"
       THEN /\ n < Len(WriteText(fe_apply.text))
            /\ fe_bak' = RegularFile(Prefix(WriteText(fe_apply.text), n))
            /\ UNCHANGED fe_file
       ELSE /\ n < Len(WriteText(fe_args.new_content)) \/ n = 0
            /\ fe_file' = RegularFile(Prefix(WriteText(fe_args.new_content), n))
            /\ UNCHANGED fe_bak
    /\ fe_result' = ApplyRaised
    /\ fe_pc' = "returned"
    /\ UNCHANGED <<fe_args, fe_preview, fe_apply, fe_call>>
    /\ UNCHANGED except_edit_vars

ApplyPositions ==
    {"apply", "backup_read", "backup_open", "backup_write", "open_target", "write_target"}

\* the process is killed, or the machine stops, somewhere in apply_file_edit;
\* of a write under way the first n characters reached the file
Crash(n) ==
    /\ fe_pc \in ApplyPositions
    /\ IF fe_pc = "backup_write"
       THEN /\ n <= Len(WriteText(fe_apply.text))
            /\ fe_bak' = RegularFile(Prefix(WriteText(fe_apply.text), n))
            /\ UNCHANGED fe_file
       ELSE IF fe_pc = "write_target"
       THEN /\ n <= Len(WriteText(fe_args.new_content))
            /\ fe_file' = RegularFile(Prefix(WriteText(fe_args.new_content), n))
            /\ UNCHANGED fe_bak
       ELSE /\ n = 0
            /\ UNCHANGED <<fe_file, fe_bak>>
    /\ fe_pc' = "crashed"
    /\ UNCHANGED <<fe_args, fe_preview, fe_apply, fe_result, fe_call>>
    /\ UNCHANGED except_edit_vars

MaxWritten == 4

NextFileEdit ==
    \/ \E target \in Targets, sibling \in Siblings : FilesArranged(target, sibling)
    \/ \E new_content \in NewContents, create_backup \in BOOLEAN :
            FileEditPreviewed(new_content, create_backup)
    \/ \E answer \in {"Yes", "No", "None"} : ConfirmAnswered(answer)
    \/ ApplyChecksExists
    \/ BackupReads
    \/ BackupOpens
    \/ BackupWrites
    \/ TargetOpens
    \/ TargetWrites
    \/ \E n \in 0..MaxWritten : WriteFails(n)
    \/ \E n \in 0..MaxWritten : Crash(n)

SpecFileEdit == Init /\ [][NextFileEdit]_vars

(***************************************************************************)
(* The /model command (commands/model_command.py) and what _chat_loop      *)
(* does with its result (cli.py 772-846)                                   *)
(***************************************************************************)
\* the models offered for the provider
AvailableModels == <<"gpt-4o", "gpt-4o-mini">>

\* what the user may type after /model
TypedArgs == {"gpt-4o", "gpt-4o-mini", "gpt-5-preview", "--refresh"}

\* what the menu may yield: None, a model, or the Cancel entry at the end
MenuChoices == {None} \cup (0..Len(AvailableModels))

InList(x, list) == \E k \in 1..Len(list) : list[k] = x

\* model_command.py 482-502: the configured string, or provider/name
resolve_litellm_model(provider, name) == provider \o "/" \o name

\* every name taken
any_name_accepted(is_litellm, name, models) == TRUE

\* model_command.py 504-519: every name passes
is_valid_litellm_model(provider, name) == TRUE

\* model_command.py 71-72 and 96: whether '/model <name>' is acted on
name_accepted(is_litellm, name, models) ==
    IF is_litellm
    THEN resolve_litellm_model(provider_name, name) # ""
            /\ is_valid_litellm_model(provider_name, name)
    ELSE InList(name, models)

\* the provider is built and the session, when there is one, holds its model
ProviderBuilt(is_litellm) ==
    /\ mc_pc = "start"
    /\ mc_is_litellm' = is_litellm
    /\ mc_model' = IF is_litellm THEN resolve_litellm_model(provider_name, "gpt-4o")
                   ELSE "gpt-4o"
    /\ mc_config' = IF ~has_session THEN NoConfig
                    ELSE IF is_litellm
                    THEN ProviderConfig("gpt-4o", mc_model', "litellm")
                    ELSE ProviderConfig("gpt-4o", "", "legacy")
    /\ mc_saved' = SavedSession(mc_config', <<>>)
    /\ mc_pc' = "idle"
    /\ UNCHANGED <<mc_messages, mc_result, mc_turn, mc_before, mc_count>>
    /\ UNCHANGED except_command_vars

\* model_command.py 73-88 and 163-181: the LiteLLM adapter is given the model,
\* the session its configuration, and the session is saved
SwitchLiteLLM(name) ==
    /\ mc_model' = resolve_litellm_model(provider_name, name)
    /\ mc_config' = IF has_session
                    THEN ProviderConfig(name, resolve_litellm_model(provider_name, name),
                                        "litellm")
                    ELSE mc_config
    /\ mc_saved' = IF has_session THEN SavedSession(mc_config', mc_messages) ELSE mc_saved
    /\ mc_result' = CommandResult(TRUE, "Switched to model", name)

\* model_command.py 99-106 and 182-191
SwitchLegacy(name) ==
    /\ mc_model' = name
    /\ mc_result' = CommandResult(TRUE, "Switched to model", name)
    /\ UNCHANGED <<mc_config, mc_saved>>

CommandLeavesAll(result) ==
    /\ mc_result' = result
    /\ UNCHANGED <<mc_model, mc_config, mc_saved>>

\* model_command.py 48-111: /model with an argument
ModelCommandTyped(arg) ==
    /\ mc_pc = "idle"
    /\ mc_count < MaxCommands
    /\ IF arg \in {"--refresh", "--reload"}
       THEN CommandLeavesAll(CommandResult(TRUE, "Model cache refreshed", ""))
       ELSE IF name_accepted(mc_is_litellm, arg, AvailableModels)
       THEN IF mc_is_litellm THEN SwitchLiteLLM(arg) ELSE SwitchLegacy(arg)
       ELSE CommandLeavesAll(CommandResult(FALSE, "not available", ""))
    /\ mc_before' = [model |-> mc_model, config |-> mc_config, saved |-> mc_saved,
                     messages |-> mc_messages, typed |-> arg, choice |-> None]
    /\ mc_turn' = [n |-> 0, model |-> ""]
    /\ mc_count' = mc_count + 1
    /\ mc_pc' = "result"
    /\ UNCHANGED <<mc_is_litellm, mc_messages>>
    /\ UNCHANGED except_command_vars

\* model_command.py 113-191: /model alone, answered at the menu; the current
\* model is the provider instance's model (cli.py 778-783)
ModelCommandMenu(selected_idx) ==
    /\ mc_pc = "idle"
    /\ mc_count < MaxCommands
    /\ IF selected_idx = None \/ selected_idx = Len(AvailableModels)
       THEN CommandLeavesAll(CommandResult(TRUE, "Model selection cancelled", ""))
       ELSE IF AvailableModels[selected_idx + 1] = mc_model
       THEN CommandLeavesAll(CommandResult(TRUE, "Model unchanged", ""))
       ELSE IF mc_is_litellm
       THEN SwitchLiteLLM(AvailableModels[selected_idx + 1])
       ELSE SwitchLegacy(AvailableModels[selected_idx + 1])
    /\ mc_before' = [model |-> mc_model, config |-> mc_config, saved |-> mc_saved,
                     messages |-> mc_messages, typed |-> "", choice |-> selected_idx]
    /\ mc_turn' = [n |-> 0, model |-> ""]
    /\ mc_count' = mc_count + 1
    /\ mc_pc' = "result"
    /\ UNCHANGED <<mc_is_litellm, mc_messages>>
    /\ UNCHANGED except_command_vars

\* cli.py 833-838: the context message of a model change (its leading glyph
\* left out)
SwitchMessage(new_model) ==
    SystemMsg("Model switched to " \o new_model \o " via /model command")

\* cli.py 788-846: the result is shown; after a change of model the session's
\* configuration is updated, the session is saved, and then the message about
\* the change is added to the session
CliHandlesResult ==
    /\ mc_pc = "result"
    /\ IF mc_result.new_model # "" /\ has_session
       THEN /\ mc_config' =
                 IF mc_is_litellm
                 THEN ProviderConfig(mc_result.new_model, mc_model, "litellm")
                 ELSE ProviderConfig(mc_result.new_model, "", "legacy")
            /\ mc_saved' = SavedSession(mc_config', mc_messages)
            /\ mc_messages' = add_message(mc_messages, SwitchMessage(mc_result.new_model))
       ELSE UNCHANGED <<mc_config, mc_saved, mc_messages>>
    /\ mc_pc' = "idle"
    /\ UNCHANGED <<mc_is_litellm, mc_model, mc_result, mc_turn, mc_before, mc_count>>
    /\ UNCHANGED except_command_vars

\* conversation.py 207-220: a turn is made with the provider's model; its user
\* message is added to the session and the session saved
CommandTurn ==
    /\ mc_pc = "idle"
    /\ mc_turn.n < MaxTurns
    /\ mc_turn' = [n |-> mc_turn.n + 1, model |-> mc_model]
    /\ mc_messages' = IF has_session THEN add_message(mc_messages, UserMsg("hello"))
                      ELSE mc_messages
    /\ mc_saved' = IF has_session THEN SavedSession(mc_config, mc_messages') ELSE mc_saved
    /\ UNCHANGED <<mc_pc, mc_is_litellm, mc_model, mc_config, mc_result, mc_before,
                   mc_count>>
    /\ UNCHANGED except_command_vars

NextCommand ==
    \/ \E is_litellm \in BOOLEAN : ProviderBuilt(is_litellm)
    \/ \E arg \in TypedArgs : ModelCommandTyped(arg)
    \/ \E selected_idx \in MenuChoices : ModelCommandMenu(selected_idx)
    \/ CliHandlesResult
    \/ CommandTurn

SpecCommand == Init /\ [][NextCommand]_vars

(***************************************************************************)
(* _chat_loop around orchestrator.chat (cli.py 760-895): the status        *)
(* spinner, the _in_status flag and what follows each way a turn can end   *)
(***************************************************************************)
\* how orchestrator.chat ends: with a response, with an empty one, with an
\* exception, or with the KeyboardInterrupt of a second Ctrl-C
ChatOutcomes == {"response", "empty", "Exception", "KeyboardInterrupt"}

\* the handlers are reached without the cleanup when the call raises
cleanup_on_return_only(outcome) ==
    IF outcome \in {"Exception", "KeyboardInterrupt"} THEN "handlers" ELSE "finally"

\* cli.py 869-877: try/finally, the cleanup runs however the call ends
after_chat(outcome) == "finally"

\* cli.py 763-770: "exit", "quit" or "bye" leaves the loop
LoopReadsExit ==
    /\ cl_pc = "input"
    /\ cl_pc' = "exited"
    /\ cl_shown' = "Goodbye"
    /\ UNCHANGED <<cl_in_status, cl_spinning, cl_outcome, cl_log>>
    /\ UNCHANGED except_loop_vars

\* cli.py 763 and 886-888: Ctrl-C twice at the prompt
LoopInterruptedAtPrompt ==
    /\ cl_pc = "input"
    /\ cl_pc' = "exited"
    /\ cl_shown' = "Goodbye"
    /\ UNCHANGED <<cl_in_status, cl_spinning, cl_outcome, cl_log>>
    /\ UNCHANGED except_loop_vars

\* cli.py 856-858: a message for the model was typed
LoopReadsMessage ==
    /\ cl_pc = "input"
    /\ Len(cl_log) < MaxLoops
    /\ cl_in_status' = TRUE
    /\ cl_outcome' = "none"
    /\ cl_pc' = "flagged"
    /\ UNCHANGED <<cl_spinning, cl_shown, cl_log>>
    /\ UNCHANGED except_loop_vars

\* cli.py 861-871: the Status is made and started, chat is awaited
LoopStartsStatus ==
    /\ cl_pc = "flagged"
    /\ cl_spinning' = TRUE
    /\ cl_pc' = "chatting"
    /\ UNCHANGED <<cl_in_status, cl_outcome, cl_shown, cl_log>>
    /\ UNCHANGED except_loop_vars

\* cli.py 871 with conversation.py 231-236: chat ends; it may have stopped
\* the spinner itself before running tools
ChatEnds(outcome, stopped_inside) ==
    /\ cl_pc = "chatting"
    /\ cl_outcome' = outcome
    /\ cl_spinning' = ~stopped_inside
    /\ cl_log' = Append(cl_log, outcome)
    /\ cl_pc' = after_chat(outcome)
    /\ UNCHANGED <<cl_in_status, cl_shown>>
    /\ UNCHANGED except_loop_vars

\* cli.py 872-877: status.stop() and _in_status = False
LoopCleansUp ==
    /\ cl_pc = "finally"
    /\ cl_spinning' = FALSE
    /\ cl_in_status' = FALSE
    /\ cl_pc' = "handlers"
    /\ UNCHANGED <<cl_outcome, cl_shown, cl_log>>
    /\ UNCHANGED except_loop_vars

\* cli.py 879-895: the response is rendered, or the exception handled: an
\* interrupt leaves the loop, any other exception is displayed with
\* suggestions and the loop goes on
LoopHandles ==
    /\ cl_pc = "handlers"
    /\ cl_shown' = CASE cl_outcome = "response" -> "response"
                     [] cl_outcome = "empty" -> cl_shown
                     [] cl_outcome = "Exception" -> "error"
                     [] cl_outcome = "KeyboardInterrupt" -> "Goodbye"
    /\ cl_pc' = IF cl_outcome = "KeyboardInterrupt" THEN "exited" ELSE "input"
    /\ UNCHANGED <<cl_in_status, cl_spinning, cl_outcome, cl_log>>
    /\ UNCHANGED except_loop_vars

NextLoop ==
    \/ LoopReadsExit
    \/ LoopInterruptedAtPrompt
    \/ LoopReadsMessage
    \/ LoopStartsStatus
    \/ \E outcome \in ChatOutcomes, stopped_inside \in BOOLEAN :
            ChatEnds(outcome, stopped_inside)
    \/ LoopCleansUp
    \/ LoopHandles

SpecLoop == Init /\ [][NextLoop]_vars

(***************************************************************************)
(* validate_and_fix_tool_arguments (provider_validators.py 9-75).  A       *)
(* string is held as its tokens: one string literal in double or in single *)
(* quotes, one bare word, the number 1, the punctuation, and the opening   *)
(* and closing markers of a markdown code block                            *)
(***************************************************************************)
\* the string literal a in double quotes and in single quotes, the bare word a
DoubleQuoted == "dq a"

SingleQuoted == "sq a"

BareWord == "a"

CoreTokens == {"{", "}", "[", "]", ",", ":", DoubleQuoted, SingleQuoted, BareWord, "1"}

FenceOpen == "fence json"

FenceClose == "fence"

RECURSIVE TokensTo(_)
TokensTo(n) ==
    IF n = 0 THEN {<<>>}
    ELSE LET shorter == TokensTo(n - 1)
         IN  shorter \cup {Append(s, t) : s \in {x \in shorter : Len(x) = n - 1},
                                          t \in CoreTokens}

\* the strings tried: every token sequence up to MaxTokens, bare and fenced
ArgumentTexts ==
    LET core == TokensTo(MaxTokens)
    IN  core \cup {<<FenceOpen>> \o s \o <<FenceClose>> : s \in core}

\* the other objects tried: dicts, None, a list of pairs, a list, a number
ArgumentObjects ==
    {Argument("dict", <<>>, PyDict(<<>>)),
     Argument("dict", <<>>, PyDict(<<Pair("a", Num("1"))>>)),
     Argument("dict", <<>>, PyDict(<<Pair("a", PyList(<<Str("a")>>))>>)),
     Argument("object", <<>>, NoValue),
     Argument("object", <<>>, PyList(<<PyList(<<Str("a"), Num("1")>>)>>)),
     Argument("object", <<>>, PyList(<<Num("1")>>)),
     Argument("object", <<>>, PyList(<<>>)),
     Argument("object", <<>>, Num("1"))}

RawArguments == {Argument("str", s, NoValue) : s \in ArgumentTexts} \cup ArgumentObjects

Parsed(ok, value, next) == [ok |-> ok, value |-> value, next |-> next]

ParseFails == Parsed(FALSE, NoValue, 0)

\* d[key] = value on a dict under construction: a repeated key keeps its place
SetItem(pairs, key, value) ==
    IF \E k \in 1..Len(pairs) : pairs[k].key = key
    THEN [k \in 1..Len(pairs) |->
            IF pairs[k].key = key THEN Pair(key, value) ELSE pairs[k]]
    ELSE Append(pairs, Pair(key, value))

RECURSIVE ParseValue(_, _), ParseMembers(_, _, _), ParseElements(_, _, _)
\* the JSON grammar: a value starting at token number at
ParseValue(toks, at) ==
    IF at > Len(toks) THEN ParseFails
    ELSE CASE toks[at] = DoubleQuoted -> Parsed(TRUE, Str("a"), at + 1)
           [] toks[at] = "1" -> Parsed(TRUE, Num("1"), at + 1)
           [] toks[at] = "{" ->
                IF at < Len(toks) /\ toks[at + 1] = "}"
                THEN Parsed(TRUE, PyDict(<<>>), at + 2)
                ELSE ParseMembers(toks, at + 1, <<>>)
           [] toks[at] = "[" ->
                IF at < Len(toks) /\ toks[at + 1] = "]"
                THEN Parsed(TRUE, PyList(<<>>), at + 2)
                ELSE ParseElements(toks, at + 1, <<>>)
           [] OTHER -> ParseFails

\* "key": value pairs up to the closing brace
ParseMembers(toks, at, pairs) ==
    IF at + 1 > Len(toks) \/ toks[at] # DoubleQuoted \/ toks[at + 1] # ":" THEN ParseFails
    ELSE LET v == ParseValue(toks, at + 2)
         IN  IF ~v.ok \/ v.next > Len(toks) THEN ParseFails
             ELSE CASE toks[v.next] = "}" ->
                          Parsed(TRUE, PyDict(SetItem(pairs, "a", v.value)), v.next + 1)
                    [] toks[v.next] = "," ->
                          ParseMembers(toks, v.next + 1, SetItem(pairs, "a", v.value))
                    [] OTHER -> ParseFails

\* values up to the closing bracket
ParseElements(toks, at, items) ==
    LET v == ParseValue(toks, at)
    IN  IF ~v.ok \/ v.next > Len(toks) THEN ParseFails
        ELSE CASE toks[v.next] = "]" ->
                     Parsed(TRUE, PyList(Append(items, v.value)), v.next + 1)
               [] toks[v.next] = "," ->
                     ParseElements(toks, v.next + 1, Append(items, v.value))
               [] OTHER -> ParseFails

\* json.loads: the whole text is one value, or JSONDecodeError
json_loads(toks) ==
    LET r == ParseValue(toks, 1)
    IN  IF r.ok /\ r.next = Len(toks) + 1 THEN r ELSE ParseFails

SelectIndices(toks, Keep(_)) ==
    LET kept == {k \in 1..Len(toks) : Keep(k)}
        RECURSIVE InOrder(_, _)
        InOrder(k, acc) ==
            IF k > Len(toks) THEN acc
            ELSE InOrder(k + 1, IF k \in kept THEN Append(acc, toks[k]) ELSE acc)
    IN  InOrder(1, <<>>)

\* provider_validators.py 46-48: the markers of a markdown code block
strip_fences(toks) ==
    LET opened == IF Len(toks) > 0 /\ toks[1] = FenceOpen THEN Tail(toks) ELSE toks
    IN  IF Len(opened) > 0 /\ opened[Len(opened)] = FenceClose
        THEN SubSeq(opened, 1, Len(opened) - 1)
        ELSE opened

\* provider_validators.py 50-51: a bare word between { or , and : is quoted
quote_property_names(toks) ==
    [k \in 1..Len(toks) |->
        IF /\ toks[k] = BareWord
           /\ k > 1 /\ toks[k - 1] \in {"{", ","}
           /\ k < Len(toks) /\ toks[k + 1] = ":"
        THEN DoubleQuoted
        ELSE toks[k]]

\* provider_validators.py 53-54: single quotes become double quotes
double_quotes(toks) ==
    [k \in 1..Len(toks) |-> IF toks[k] = SingleQuoted THEN DoubleQuoted ELSE toks[k]]

\* provider_validators.py 56-58: a comma before } or ] is dropped
drop_trailing_commas(toks) ==
    LET Keep(k) == ~(toks[k] = "," /\ k < Len(toks) /\ toks[k + 1] \in {"}", "]"})
    IN  SelectIndices(toks, Keep)

\* provider_validators.py 60-68: the escapes Gemini doubles and the bytes
\* OpenRouter garbles are not among the tokens, these rewrites change nothing
provider_fixes(toks, provider) == toks

\* provider_validators.py 42-75: the repaired text parsed, None on any exception
fix_malformed_json(toks, provider) ==
    json_loads(provider_fixes(
        drop_trailing_commas(double_quotes(quote_property_names(strip_fences(toks)))),
        provider))

\* the truth value Python gives a parsed value
Truthy(v) ==
    CASE v.kind \in {"dict", "list"} -> Len(v.items) > 0
      [] v.kind = "none" -> FALSE
      [] OTHER -> v.text # ""

\* provider_validators.py 35-39: dict(arguments), {} when it raises
dict_or_empty(argument) ==
    LET v == argument.value
    IN  IF /\ argument.kind = "object" /\ v.kind = "list"
           /\ \A k \in 1..Len(v.items) :
                 /\ v.items[k].kind = "list"
                 /\ Len(v.items[k].items) = 2
                 /\ v.items[k].items[1].kind \in {"str", "int"}
        THEN PyDict([k \in 1..Len(v.items) |->
                        Pair(v.items[k].items[1].text, v.items[k].items[2])])
        ELSE PyDict(<<>>)

\* provider_validators.py 9-39
validate_and_fix_tool_arguments(argument, provider) ==
    IF argument.kind = "dict" THEN argument.value
    ELSE IF argument.kind = "str" /\ json_loads(argument.tokens).ok
    THEN json_loads(argument.tokens).value
    ELSE IF /\ argument.kind = "str"
            /\ fix_malformed_json(argument.tokens, provider).ok
            /\ Truthy(fix_malformed_json(argument.tokens, provider).value)
    THEN fix_malformed_json(argument.tokens, provider).value
    ELSE dict_or_empty(argument)

ValidatorProviders == {"gemini", "openrouter"}

\* a provider hands the arguments of a tool call to the validator
ToolArgumentsValidated(argument, provider) ==
    /\ va_pc = "idle"
    /\ va_arguments' = argument
    /\ va_provider' = provider
    /\ va_result' = validate_and_fix_tool_arguments(argument, provider)
    /\ va_pc' = "returned"
    /\ UNCHANGED except_validator_vars

NextValidator ==
    \E argument \in RawArguments, provider \in ValidatorProviders :
        ToolArgumentsValidated(argument, provider)

SpecValidator == Init /\ [][NextValidator]_vars

(***************************************************************************)
(* LiteLLMAdapter._validate_environment_variables, run by the constructor, *)
(* and check_environment_readiness (litellm_adapter.py 447-484, 528-574)   *)
(***************************************************************************)
Vendors ==
    {"openai", "anthropic", "claude", "google", "gemini", "openrouter", "together",
     "groq", "ollama"}

ApiKeys ==
    {"OPENAI_API_KEY", "ANTHROPIC_API_KEY", "GOOGLE_API_KEY", "GEMINI_API_KEY",
     "OPENROUTER_API_KEY"}

\* litellm_adapter.py 453-463: required_env_vars.get(self.vendor_prefix)
preflight_env_var(vendor) ==
    CASE vendor = "openai" -> "OPENAI_API_KEY"
      [] vendor \in {"anthropic", "claude"} -> "ANTHROPIC_API_KEY"
      [] vendor = "google" -> "GOOGLE_API_KEY"
      [] vendor = "gemini" -> "GEMINI_API_KEY"
      [] vendor = "openrouter" -> "OPENROUTER_API_KEY"
      [] vendor = "together" -> "TOGETHER_API_KEY"
      [] vendor = "groq" -> "GROQ_API_KEY"
      [] OTHER -> NoEnvVar

\* litellm_adapter.py 543-555: required_env_vars.get(self.vendor_prefix)
readiness_env_var(vendor) ==
    CASE vendor = "openai" -> "OPENAI_API_KEY"
      [] vendor \in {"anthropic", "claude"} -> "ANTHROPIC_API_KEY"
      [] vendor \in {"google", "gemini"} -> "GOOGLE_API_KEY"
      [] vendor = "openrouter" -> "OPENROUTER_API_KEY"
      [] vendor = "together" -> "TOGETHER_API_KEY"
      [] vendor = "groq" -> "GROQ_API_KEY"
      [] OTHER -> NoEnvVar

\* litellm_adapter.py 447-484: the warning about a missing key; nothing is
\* raised and the adapter is constructed either way
validate_environment_variables(vendor, environ) ==
    LET env_var == preflight_env_var(vendor)
    IN  Preflight(env_var, env_var # NoEnvVar /\ env_var \notin environ, TRUE)

\* litellm_adapter.py 528-574
check_environment_readiness(vendor, environ) ==
    LET env_var == readiness_env_var(vendor)
    IN  IF env_var = NoEnvVar THEN Readiness(TRUE, env_var, "not_required")
        ELSE IF env_var \in environ THEN Readiness(TRUE, env_var, "configured")
        ELSE Readiness(FALSE, env_var, "missing")

\* LiteLLMAdapter(model) in some environment
AdapterConstructed(vendor, environ) ==
    /\ ev_pc = "none"
    /\ ev_vendor' = vendor
    /\ ev_environ' = environ
    /\ ev_preflight' = validate_environment_variables(vendor, environ)
    /\ ev_pc' = "constructed"
    /\ UNCHANGED ev_status
    /\ UNCHANGED except_env_vars

\* adapter.check_environment_readiness() in the same environment
ReadinessChecked ==
    /\ ev_pc = "constructed"
    /\ ev_status' = check_environment_readiness(ev_vendor, ev_environ)
    /\ ev_pc' = "checked"
    /\ UNCHANGED <<ev_vendor, ev_environ, ev_preflight>>
    /\ UNCHANGED except_env_vars

NextEnv ==
    \/ \E vendor \in Vendors, environ \in SUBSET ApiKeys : AdapterConstructed(vendor, environ)
    \/ ReadinessChecked

SpecEnv == Init /\ [][NextEnv]_vars

(***************************************************************************)
(* MessageHistoryManager (memory/history_manager.py 17-127).  Each         *)
(* operation gives the manager afterwards and what the call returned.      *)
(***************************************************************************)
\* the user messages a project can hold, oldest first
AllMessages == <<<<"o", "l", "d">>, <<"m", "i", "d">>, <<"n", "e", "w">>>>

Stores == {SubSeq(AllMessages, 1, n) : n \in 0..MaxHistory}

TypedInputs == {<<>>, <<"x">>}

HistoryResult(mgr, kind, text) == [mgr |-> mgr, kind |-> kind, text |-> text]

\* history_manager.py 17-47: _load_project_user_messages
load_project_user_messages(mgr, stored) ==
    IF mgr.loaded THEN mgr ELSE [mgr EXCEPT !.loaded = TRUE, !.cache = stored]

\* history[index]: Python counts a negative index from the end and raises
\* IndexError outside the list
Subscript(history, index) ==
    IF index >= 0 /\ index < Len(history)
    THEN [kind |-> "text", text |-> history[index + 1]]
    ELSE IF index < 0 /\ -index <= Len(history)
    THEN [kind |-> "text", text |-> history[Len(history) + index + 1]]
    ELSE [kind |-> "IndexError", text |-> <<>>]

\* history_manager.py 49-60
start_navigation(mgr, stored, current_input) ==
    LET m == [load_project_user_messages(mgr, stored) EXCEPT
                    !.original_input = current_input]
    IN  IF m.cache = <<>>
        THEN HistoryResult([m EXCEPT !.current_index = -1], "text", current_input)
        ELSE HistoryResult([m EXCEPT !.current_index = Len(m.cache) - 1], "text",
                           m.cache[Len(m.cache)])

\* history_manager.py 62-80
navigate_up(mgr, stored) ==
    LET m == load_project_user_messages(mgr, stored)
    IN  IF m.cache = <<>> THEN HistoryResult(m, "None", <<>>)
        ELSE IF m.current_index = -1
        THEN HistoryResult([m EXCEPT !.current_index = Len(m.cache) - 1], "text",
                           m.cache[Len(m.cache)])
        ELSE IF m.current_index > 0
        THEN LET moved == [m EXCEPT !.current_index = m.current_index - 1]
             IN  HistoryResult(moved, Subscript(m.cache, moved.current_index).kind,
                               Subscript(m.cache, moved.current_index).text)
        ELSE HistoryResult(m, Subscript(m.cache, m.current_index).kind,
                           Subscript(m.cache, m.current_index).text)

\* history_manager.py 82-96
navigate_down(mgr, stored) ==
    LET m == load_project_user_messages(mgr, stored)
    IN  IF m.cache = <<>> \/ m.current_index = -1 THEN HistoryResult(m, "None", <<>>)
        ELSE IF m.current_index < Len(m.cache) - 1
        THEN LET moved == [m EXCEPT !.current_index = m.current_index + 1]
             IN  HistoryResult(moved, "text", m.cache[moved.current_index + 1])
        ELSE HistoryResult([m EXCEPT !.current_index = -1], "text", m.original_input)

\* history_manager.py 98-107
get_current_message(mgr, stored) ==
    IF mgr.current_index = -1 THEN HistoryResult(mgr, "text", mgr.original_input)
    ELSE LET m == load_project_user_messages(mgr, stored)
         IN  IF m.cache # <<>> /\ 0 <= m.current_index /\ m.current_index < Len(m.cache)
             THEN HistoryResult(m, "text", m.cache[m.current_index + 1])
             ELSE HistoryResult(m, "text", m.original_input)

\* history_manager.py 109-114
reset_navigation(mgr) ==
    HistoryResult([mgr EXCEPT !.current_index = -1, !.original_input = <<>>],
                  "text", mgr.original_input)

\* history_manager.py 116-118
invalidate_history_cache(mgr) ==
    HistoryResult([mgr EXCEPT !.loaded = FALSE, !.cache = <<>>], "None", <<>>)

\* history_manager.py 120-123
get_history_count(mgr, stored) == Len(load_project_user_messages(mgr, stored).cache)

\* history_manager.py 125-127
is_navigating(mgr) == mgr.current_index # -1

\* a call on the manager, by whoever holds it
HistoryCalled(op, result) ==
    /\ hm_calls < MaxCalls
    /\ hm_ret.kind # "IndexError"
    /\ hm_mgr' = result.mgr
    /\ hm_ret' = HistoryCall(op, result.kind, result.text, hm_mgr)
    /\ hm_calls' = hm_calls + 1
    /\ UNCHANGED hm_stored

\* sessions are saved, cleared or deleted: the messages on disk change
SessionsChange(stored) ==
    /\ stored # hm_stored
    /\ hm_stored' = stored
    /\ UNCHANGED <<hm_mgr, hm_ret, hm_calls>>
    /\ UNCHANGED except_history_vars

StartNavigationCalled(current_input) ==
    /\ HistoryCalled("start_navigation", start_navigation(hm_mgr, hm_stored, current_input))
    /\ UNCHANGED except_history_vars

NavigateUpCalled ==
    /\ HistoryCalled("navigate_up", navigate_up(hm_mgr, hm_stored))
    /\ UNCHANGED except_history_vars

NavigateDownCalled ==
    /\ HistoryCalled("navigate_down", navigate_down(hm_mgr, hm_stored))
    /\ UNCHANGED except_history_vars

GetCurrentMessageCalled ==
    /\ HistoryCalled("get_current_message", get_current_message(hm_mgr, hm_stored))
    /\ UNCHANGED except_history_vars

ResetNavigationCalled ==
    /\ HistoryCalled("reset_navigation", reset_navigation(hm_mgr))
    /\ UNCHANGED except_history_vars

InvalidateCacheCalled ==
    /\ HistoryCalled("invalidate_cache", invalidate_history_cache(hm_mgr))
    /\ UNCHANGED except_history_vars

NextHistory ==
    \/ \E stored \in Stores : SessionsChange(stored)
    \/ \E current_input \in TypedInputs : StartNavigationCalled(current_input)
    \/ NavigateUpCalled
    \/ NavigateDownCalled
    \/ GetCurrentMessageCalled
    \/ ResetNavigationCalled
    \/ InvalidateCacheCalled

SpecHistory == Init /\ [][NextHistory]_vars

(***************************************************************************)
(* get_input_with_history (commands/enhanced_input.py 46-212) on a Unix    *)
(* terminal: getch gives one character at a time, an arrow key is the      *)
(* escape character followed by [ and a letter                             *)
(***************************************************************************)
ESC == "ESC"

Enter == "CR"

CtrlC == "ETX"

CtrlD == "EOT"

Backspace == "DEL"

Printable == {"x", "[", "A", "B", "D"}

Characters == {ESC, Enter, CtrlC, CtrlD, Backspace} \cup Printable

\* the typed input the navigation started from, while it lasts
TypedBefore == IF in_mode THEN in_last.typed ELSE in_current

\* enhanced_input.py 64-74: the prompt is shown, nothing is typed yet
InputBegins(stored) ==
    /\ in_pc = "none"
    /\ in_stored' = stored
    /\ in_pc' = "reading"
    /\ UNCHANGED <<in_mgr, in_current, in_cursor, in_mode, in_seq, in_last, in_keys>>
    /\ UNCHANGED except_input_vars

\* enhanced_input.py 101-103: the escape character starts a sequence of two
\* more characters; the branch for the Escape key alone (196-201) tests the
\* same character after this one and is never taken
EscapeRead ==
    /\ in_pc = "reading"
    /\ in_keys < MaxKeys
    /\ in_pc' = "seq1"
    /\ in_keys' = in_keys + 1
    /\ UNCHANGED <<in_stored, in_mgr, in_current, in_cursor, in_mode, in_seq, in_last>>
    /\ UNCHANGED except_input_vars

\* enhanced_input.py 103: the first getch() of the sequence
SequenceFirst(ch) ==
    /\ in_pc = "seq1"
    /\ in_keys < MaxKeys
    /\ in_seq' = ch
    /\ in_pc' = "seq2"
    /\ in_keys' = in_keys + 1
    /\ UNCHANGED <<in_stored, in_mgr, in_current, in_cursor, in_mode, in_last>>
    /\ UNCHANGED except_input_vars

\* enhanced_input.py 104-116: Up arrow; an exception of the manager is
\* swallowed by the bare except of the sequence (130-131)
UpArrow ==
    IF get_history_count(in_mgr, in_stored) = 0
    THEN /\ in_mgr' = load_project_user_messages(in_mgr, in_stored)
         /\ UNCHANGED <<in_current, in_cursor, in_mode>>
    ELSE IF ~in_mode
    THEN LET r == start_navigation(in_mgr, in_stored, in_current)
         IN  /\ in_mgr' = r.mgr
             /\ in_current' = r.text
             /\ in_cursor' = Len(r.text)
             /\ in_mode' = TRUE
    ELSE LET r == navigate_up(in_mgr, in_stored)
         IN  /\ in_mgr' = r.mgr
             /\ in_current' = IF r.kind = "text" THEN r.text ELSE in_current
             /\ in_cursor' = IF r.kind = "IndexError" THEN in_cursor ELSE Len(in_current')
             /\ UNCHANGED in_mode

\* enhanced_input.py 117-127: Down arrow
DownArrow ==
    IF ~in_mode THEN UNCHANGED <<in_mgr, in_current, in_cursor, in_mode>>
    ELSE LET r == navigate_down(in_mgr, in_stored)
         IN  /\ in_mgr' = r.mgr
             /\ IF r.kind = "text"
                THEN /\ in_current' = r.text
                     /\ in_cursor' = Len(r.text)
                     /\ in_mode' = (in_mode /\ is_navigating(r.mgr))
                ELSE UNCHANGED <<in_current, in_cursor, in_mode>>

\* enhanced_input.py 103-131: the second getch() completes the sequence
SequenceSecond(ch) ==
    /\ in_pc = "seq2"
    /\ in_keys < MaxKeys
    /\ LET seq == <<in_seq, ch>>
       IN  /\ CASE seq = <<"[", "A">> -> UpArrow
                [] seq = <<"[", "B">> -> DownArrow
                [] seq = <<"[", "D">> ->
                     /\ in_cursor' = IF in_cursor > 0 THEN in_cursor - 1 ELSE in_cursor
                     /\ UNCHANGED <<in_mgr, in_current, in_mode>>
                [] OTHER -> UNCHANGED <<in_mgr, in_current, in_cursor, in_mode>>
           /\ in_last' = Handled(CASE seq = <<"[", "A">> -> "Up"
                                   [] seq = <<"[", "B">> -> "Down"
                                   [] seq = <<"[", "D">> -> "Left"
                                   [] OTHER -> "Escape",
                                 in_mode, TypedBefore)
    /\ in_seq' = ""
    /\ in_pc' = "reading"
    /\ in_keys' = in_keys + 1
    /\ UNCHANGED in_stored
    /\ UNCHANGED except_input_vars

\* the manager after `if in_history_mode: history_manager.reset_navigation()`
ResetIfInMode == IF in_mode THEN reset_navigation(in_mgr).mgr ELSE in_mgr

\* enhanced_input.py 165-170: Enter returns the input
EnterRead ==
    /\ in_pc = "reading"
    /\ in_keys < MaxKeys
    /\ in_mgr' = ResetIfInMode
    /\ in_last' = Handled("Enter", in_mode, TypedBefore)
    /\ in_pc' = "returned"
    /\ in_keys' = in_keys + 1
    /\ UNCHANGED <<in_stored, in_current, in_cursor, in_mode, in_seq>>
    /\ UNCHANGED except_input_vars

\* enhanced_input.py 172-179: Ctrl+C resets the navigation and sends SIGINT
\* to the process; the handler returns after a first tap and raises
\* KeyboardInterrupt after a second one
CtrlCRead(raised) ==
    /\ in_pc = "reading"
    /\ in_keys < MaxKeys
    /\ in_mgr' = ResetIfInMode
    /\ in_last' = Handled("Ctrl+C", in_mode, TypedBefore)
    /\ in_pc' = IF raised THEN "raised" ELSE "reading"
    /\ in_keys' = in_keys + 1
    /\ UNCHANGED <<in_stored, in_current, in_cursor, in_mode, in_seq>>
    /\ UNCHANGED except_input_vars

\* enhanced_input.py 181-185: Ctrl+D raises KeyboardInterrupt
CtrlDRead ==
    /\ in_pc = "reading"
    /\ in_keys < MaxKeys
    /\ in_mgr' = ResetIfInMode
    /\ in_last' = Handled("Ctrl+D", in_mode, TypedBefore)
    /\ in_pc' = "raised"
    /\ in_keys' = in_keys + 1
    /\ UNCHANGED <<in_stored, in_current, in_cursor, in_mode, in_seq>>
    /\ UNCHANGED except_input_vars

\* enhanced_input.py 187-194: Backspace
BackspaceRead ==
    /\ in_pc = "reading"
    /\ in_keys < MaxKeys
    /\ IF in_cursor > 0
       THEN /\ in_current' = SubSeq(in_current, 1, in_cursor - 1)
                                \o SubSeq(in_current, in_cursor + 1, Len(in_current))
            /\ in_cursor' = in_cursor - 1
            /\ in_mgr' = ResetIfInMode
            /\ in_mode' = FALSE
       ELSE UNCHANGED <<in_current, in_cursor, in_mgr, in_mode>>
    /\ in_last' = Handled("Backspace", in_mode, TypedBefore)
    /\ in_keys' = in_keys + 1
    /\ UNCHANGED <<in_pc, in_stored, in_seq>>
    /\ UNCHANGED except_input_vars

\* enhanced_input.py 203-210: a printable character is inserted at the cursor
PrintableRead(ch) ==
    /\ in_pc = "reading"
    /\ in_keys < MaxKeys
    /\ in_current' = SubSeq(in_current, 1, in_cursor) \o <<ch>>
                        \o SubSeq(in_current, in_cursor + 1, Len(in_current))
    /\ in_cursor' = in_cursor + 1
    /\ in_mgr' = ResetIfInMode
    /\ in_mode' = FALSE
    /\ in_last' = Handled("typing", in_mode, TypedBefore)
    /\ in_keys' = in_keys + 1
    /\ UNCHANGED <<in_pc, in_stored, in_seq>>
    /\ UNCHANGED except_input_vars

NextInput ==
    \/ \E stored \in Stores : InputBegins(stored)
    \/ EscapeRead
    \/ \E ch \in Characters : SequenceFirst(ch)
    \/ \E ch \in Characters : SequenceSecond(ch)
    \/ EnterRead
    \/ \E raised \in BOOLEAN : CtrlCRead(raised)
    \/ CtrlDRead
    \/ BackspaceRead
    \/ \E ch \in Printable : PrintableRead(ch)

SpecInput == Init /\ [][NextInput]_vars

(***************************************************************************)
(* Properties                                                              *)
(***************************************************************************)
IsToolCallMessage(m) == m.role = "assistant" /\ Len(m.tool_calls) > 0

Corresponds(H) ==
    \A k \in 1..Len(H) :
        IsToolCallMessage(H[k]) =>
            LET N == Len(H[k].tool_calls)
            IN  /\ k + N <= Len(H)
                /\ \A j \in 1..N :
                      /\ H[k + j].role = "tool"
                      /\ H[k + j].tool_call_id = H[k].tool_calls[j].id
                /\ (k + N + 1 <= Len(H) => H[k + N + 1].role # "tool")

\* C1: after a completed turn every assistant message with tool_calls c1..cN is
\* followed at once by exactly N tool messages answering c1.id..cN.id in order,
\* in conversation_history and in session.messages, whatever the shape of the
\* tool calls.
ToolResultCorrespondence ==
    pc = "done" =>
        /\ Corresponds(conversation_history)
        /\ (has_session => Corresponds(session_messages))

\* the messages of the current turn: those after the last user message
TurnMessages(H) ==
    LET u == CHOOSE k \in 1..Len(H) :
                /\ H[k].role = "user"
                /\ \A j \in (k + 1)..Len(H) : H[j].role # "user"
    IN  SubSeq(H, u + 1, Len(H))

TurnToolIds(H) ==
    LET T == SelectSeq(TurnMessages(H), LAMBDA m : m.role = "tool")
    IN  [k \in 1..Len(T) |-> T[k].tool_call_id]

\* C2: the tool calls of a response run one after another in the order the
\* model emitted them (a tool starts only after the one before it has
\* returned), their results are collected in that order, and the tool
\* messages are appended to the transcript in that order.
SequentialInOrder ==
    /\ \A k \in 1..Len(exec_log) :
          /\ (k % 2 = 1) =>
                /\ exec_log[k].ev = "start"
                /\ (k > 2 => exec_log[k].idx > exec_log[k - 2].idx)
          /\ (k % 2 = 0) =>
                /\ exec_log[k].ev = "end"
                /\ exec_log[k].idx = exec_log[k - 1].idx
    /\ \A k \in 1..Len(tool_results) :
          /\ 2 * k <= Len(exec_log)
          /\ tool_results[k].tool_call_id = tool_calls[exec_log[2 * k].idx].id
          /\ tool_results[k].function_name = tool_calls[exec_log[2 * k].idx].name
    /\ pc \in {"await_followup", "done", "interrupted_followup"} =>
          /\ Len(exec_log) = 2 * Len(tool_results)
          /\ TurnToolIds(conversation_history)
                = [k \in 1..Len(tool_results) |-> tool_calls[exec_log[2 * k].idx].id]
          /\ (has_session =>
                TurnToolIds(session_messages) = TurnToolIds(conversation_history))

SequentialInOrderWitness ==
    /\ pc = "done"
    /\ Len(tool_results) >= 2
    /\ tool_results[1].tool_call_id # tool_results[2].tool_call_id

\* what the user did at the prompt counts as a Yes
UserAnsweredYes(env) ==
    /\ env.tty
    /\ \/ env.menu = "Yes"
       \/ env.menu = "Exception" /\ env.typed \in {"1", ""}

\* C3: apply_file_edit is called only if the prompt was answered Yes by the
\* user or SONGBIRD_AUTO_APPLY=y is set (never on No, on a cancelled prompt or
\* without an interactive terminal), and while the confirmation is pending no
\* later tool call has started.
WriteOnlyWhenConfirmed ==
    /\ \A k \in 1..Len(confirm_log) :
          confirm_log[k].apply_called =>
              confirm_log[k].env.auto_apply \/ UserAnsweredYes(confirm_log[k].env)
    /\ pc = "confirm" => Last(exec_log) = [ev |-> "start", idx |-> i]

\* the confirmation resolved to No, or the prompt was cancelled
Declined(env) ==
    /\ ~env.auto_apply
    /\ safe_interactive_menu(env.tty, env.menu, env.typed, 0) \in {1, None}

CancelledText == "\"message\": \"Changes cancelled by user\""

DeclinedEditRecorded ==
    \A k \in 1..Len(confirm_log) :
        LET e == confirm_log[k]
        IN  Declined(e.env) =>
              /\ ~e.apply_called
              /\ e.after = e.before
              /\ \E r \in 1..Len(tool_results) :
                    /\ tool_results[r].tool_call_id = tool_calls[e.idx].id
                    /\ ~tool_results[r].result.success
                    /\ Contains(ToolMessageContent(tool_results[r].result), CancelledText)
              /\ pc \in {"await_followup", "done"} =>
                    LET T == TurnMessages(conversation_history)
                        S == TurnMessages(session_messages)
                    IN  \E m \in 1..Len(T) :
                            /\ T[m].role = "tool"
                            /\ T[m].tool_call_id = tool_calls[e.idx].id
                            /\ Contains(T[m].content, "{\"success\": false")
                            /\ Contains(T[m].content, CancelledText)
                            /\ (has_session =>
                                  \E n \in 1..Len(S) : S[n] = T[m])

DeclineStep ==
    (pc = "confirm" /\ pc' # "confirm"
        /\ Declined(confirm_log'[Len(confirm_log')].env)) =>
            /\ file_content' = file_content
            /\ backup_content' = backup_content
            /\ pc' = "dispatch"
            /\ i' = i + 1

DenylistRefusal ==
    (sh_pc # "idle" /\ ~is_command_safe(sh_command)) =>
        /\ ~sh_spawned
        /\ (sh_pc = "returned" => ~sh_result.success)

\* C6: when the provider call of a turn raises, the turn fails with the user
\* message as the last message of conversation_history and of session.messages,
\* already saved; no assistant and no tool message has been appended.
FailedTurnKeepsUserMessage ==
    pc = "raised_provider" =>
        /\ returned = NoReturn
        /\ Last(conversation_history).role = "user"
        /\ Last(conversation_history).content \in UserInputs
        /\ has_session =>
              /\ Last(session_messages) = Last(conversation_history)
              /\ stored_messages = session_messages

FailedTurnWitness ==
    /\ pc = "raised_provider"
    /\ has_session
    /\ Len(stored_messages) = 2

\* C7: a KeyboardInterrupt raised while a provider call of the turn is in
\* flight leaves the transcript ending at the user message, with no assistant
\* message of the unfinished turn in it.
InterruptLeavesNoOrphan ==
    pc \in {"interrupted_model", "interrupted_followup"} =>
        /\ Last(conversation_history).role = "user"
        /\ (has_session => Last(session_messages).role = "user")

\* C8: a tool-calling turn returns a final text and appends exactly one final
\* assistant message carrying it to conversation_history and to
\* session.messages, whether the follow-up call succeeds or raises.
FinalAssistantAlwaysAppended ==
    (pc = "done" /\ Len(tool_calls) > 0) =>
        /\ returned # NoReturn
        /\ Last(conversation_history) = AssistantMsg(returned, <<>>)
        /\ (has_session => Last(session_messages) = AssistantMsg(returned, <<>>))

CapExceededMessage == "aborted: too many tool iterations"

EveryResponseCalledTools ==
    /\ pc = "done"
    /\ Len(tool_calls) > 0
    /\ Len(followup_tool_calls) > 0

TwoCallsThenFinal ==
    /\ provider_calls <= 2
    /\ Len(exec_log) <= 2 * Len(tool_calls)
    /\ EveryResponseCalledTools =>
          /\ returned \in FinalAnswers
          /\ Last(conversation_history) = AssistantMsg(returned, <<>>)
          /\ has_session =>
                /\ Last(session_messages) = AssistantMsg(returned, <<>>)
                /\ stored_messages = session_messages

\* the longest list of tool calls a response carries
MaxResponseLen == CHOOSE n \in 0..8 :
    /\ \A calls \in ToolResponses : Len(calls) <= n
    /\ \E calls \in ToolResponses : Len(calls) = n

\* an upper bound on the steps the turn in progress has left
Rank ==
    CASE pc = "await_model" -> 2 * MaxResponseLen + 5
      [] pc = "dispatch" -> 2 * (Len(tool_calls) - i + 1) + 3
      [] pc \in {"executing", "confirm"} -> 2 * (Len(tool_calls) - i + 1) + 2
      [] pc = "await_followup" -> 2
      [] pc \in {"done", "raised_provider", "raised_arguments"} -> 1
      [] OTHER -> 0

InTurn == pc \notin {"idle", "interrupted_model", "interrupted_followup"}

\* a turn in progress can always take a step, and every step it takes brings
\* it closer to its end
TurnProgress == InTurn => (Rank > 0 /\ ENABLED TurnStep)

TurnStepDescends == InTurn => Rank' < Rank

ToolMessagePersistedBeforeNext ==
    (has_session /\ pc \in {"executing", "confirm"} /\ Len(tool_results) > 0) =>
        \E k \in 1..Len(stored_messages) :
            /\ IsToolCallMessage(stored_messages[k])
            /\ \E m \in (k + 1)..Len(stored_messages) :
                  /\ stored_messages[m].role = "tool"
                  /\ stored_messages[m].tool_call_id = Last(tool_results).tool_call_id

\* the number of messages of a prompt that are the system prompt
SystemPromptCount(prompt) ==
    Cardinality({k \in 1..Len(prompt) :
                    prompt[k].role = "system" /\ prompt[k].content = system_prompt})

\* C11: every prompt sent to the provider (first call and follow-up call; new
\* or resumed session, after a model switch, after /clear) holds the system
\* prompt exactly once, as its first message.
SystemPromptOnceFirst ==
    pc \in {"await_model", "await_followup"} =>
        /\ Len(messages) > 0
        /\ messages[1] = SystemMsg(system_prompt)
        /\ SystemPromptCount(messages) = 1


\* the transcript without its system messages
NonSystem(H) == SelectSeq(H, LAMBDA m : m.role # "system")

UserAndAssistant(H) == SelectSeq(H, LAMBDA m : m.role \in {"user", "assistant"})

SameMessage(a, b) ==
    /\ a.role = b.role
    /\ a.content = b.content
    /\ a.tool_calls = b.tool_calls
    /\ a.tool_call_id = b.tool_call_id

\* C12: the follow-up call is made without tools and its prompt is the full
\* transcript in order: the system prompt, then every user, assistant (with
\* tool_calls) and tool message of the conversation.
FollowupPromptHasFullTranscript ==
    pc = "await_followup" =>
        /\ ~tools_sent
        /\ messages[1] = SystemMsg(system_prompt)
        /\ Len(messages) = 1 + Len(NonSystem(conversation_history))
        /\ \A k \in 1..Len(NonSystem(conversation_history)) :
              SameMessage(messages[k + 1], NonSystem(conversation_history)[k])

SummaryHead == "Tool execution results:"

\* C12 (amended): the follow-up call is made without tools; its prompt is the
\* system prompt, then every user and assistant message of the conversation
\* in order (tool_calls kept), no tool message, and at the end one user
\* message "Tool execution results:" with one summary per tool result.
FollowupPromptSummarisesTools ==
    pc = "await_followup" =>
        LET UA == UserAndAssistant(conversation_history)
            n == Len(messages)
        IN  /\ ~tools_sent
            /\ messages[1] = SystemMsg(system_prompt)
            /\ n = Len(UA) + 2
            /\ \A k \in 1..Len(UA) :
                  /\ messages[k + 1].role = UA[k].role
                  /\ messages[k + 1].content = UA[k].content
                  /\ messages[k + 1].tool_calls = UA[k].tool_calls
            /\ \A k \in 1..n : messages[k].role # "tool"
            /\ messages[n].role = "user"
            /\ SubSeq(messages[n].content, 1, Len(SummaryHead)) = SummaryHead
            /\ \A r \in 1..Len(tool_results) :
                  Contains(messages[n].content, ToolSummary(tool_results[r]))

FollowupPromptWitness ==
    /\ pc = "await_followup"
    /\ Len(tool_results) >= 2
    /\ \E k \in 1..Len(messages) : Len(messages[k].tool_calls) >= 2
    /\ \E k \in 1..Len(conversation_history) : conversation_history[k].role = "tool"


\* the tool calls of the response whose argument string is not valid JSON
InvalidArgumentCalls ==
    {j \in 1..Len(tool_calls) :
        HasFunction(tool_calls[j]) /\ tool_calls[j].arguments = "badjson"}

\* C13: a tool call with invalid arguments does not make the orchestrator
\* raise: a failed tool result with an error text is recorded for it, the
\* other tool calls of the response still run, and the turn reaches the
\* follow-up call.
InvalidArgumentsRecorded ==
    /\ pc # "raised_arguments"
    /\ pc \in {"await_followup", "done"} =>
          \A j \in InvalidArgumentCalls :
              \E r \in 1..Len(tool_results) :
                  /\ tool_results[r].tool_call_id = tool_calls[j].id
                  /\ ~tool_results[r].result.success
                  /\ tool_results[r].result.error # ""


\* the tool lacks type == "function", a function.name or function.parameters
LacksRequiredField(tool) ==
    \/ tool.type # "function"
    \/ ~tool.has_function
    \/ ~tool.has_name
    \/ tool.parameters = Missing

Complete(tool) == ~LacksRequiredField(tool)

CallInFlight == ad_pc \in {"awaiting", "awaiting_stream"}

\* C14: before a provider call exactly the tools that lack type ==
\* "function", function.name or function.parameters are dropped, the others
\* are sent unchanged in their order, and tool_choice="auto" is requested
\* whenever tools are supplied.
OnlyIncompleteToolsDropped ==
    CallInFlight =>
        /\ ad_request.tools = SelectSeq(ad_tools_in, Complete)
        /\ (Len(ad_tools_in) > 0 => ad_request.tool_choice = "auto")

\* parameters is a mapping whose properties, when present, can be counted
CountableParameters(tool) == tool.parameters \in {"object", "object_no_properties"}

WellFormed(tool) == Complete(tool) /\ CountableParameters(tool)

\* C14 (amended): a tool is dropped if it lacks one of the three fields or if
\* its parameters (or their properties) is None; the others are sent
\* unchanged in their order; tools and tool_choice="auto" are part of the
\* request exactly when at least one tool is left.
ValidatedToolsSent ==
    CallInFlight =>
        /\ ad_request.tools = SelectSeq(ad_tools_in, WellFormed)
        /\ ad_request.has_tools = (Len(ad_request.tools) > 0)
        /\ (ad_request.tool_choice = "auto") = (Len(ad_request.tools) > 0)
        /\ ad_request.tool_choice \in {"auto", Missing}
        /\ ad_request.stream = (ad_pc = "awaiting_stream")

ValidatedToolsWitness ==
    /\ ad_pc = "awaiting_stream"
    /\ Len(ad_tools_in) = 2
    /\ LacksRequiredField(ad_tools_in[1])
    /\ ad_request.tools = <<ad_tools_in[2]>>
    /\ ad_request.tool_choice = "auto"


Mentions(text, words) == \E w \in words : Contains(text, w)

FiveErrorTypes ==
    { "LiteLLMAuthenticationError", "LiteLLMRateLimitError", "LiteLLMModelError",
      "LiteLLMConnectionError", "LiteLLMError" }

\* the types the keyword lists of the claim give for an error text
KeywordTypes(text) ==
    LET matched ==
          (IF Mentions(text, {"401", "api key", "unauthorized", "authentication"})
           THEN {"LiteLLMAuthenticationError"} ELSE {})
          \cup (IF Mentions(text, {"429", "rate limit", "quota"})
                THEN {"LiteLLMRateLimitError"} ELSE {})
          \cup (IF Mentions(text, {"404", "not found", "not supported"})
                THEN {"LiteLLMModelError"} ELSE {})
          \cup (IF Mentions(text, {"network", "timeout", "503"})
                THEN {"LiteLLMConnectionError"} ELSE {})
    IN  IF matched = {} THEN {"LiteLLMError"} ELSE matched

\* C15: every exception raised by the completion call leaves the adapter as
\* one of the five classified types, chosen from the lower-cased error text
\* by the keyword lists (401/api key/unauthorized/authentication; 429/rate
\* limit/quota; 404/not found/not supported; network/timeout/503; else the
\* generic error), and no other type escapes.
ErrorClassifiedByKeyword ==
    ad_pc = "raised" =>
        /\ ad_error.left \in FiveErrorTypes
        /\ ad_error.left \in KeywordTypes(Lower(ad_error.cause.text))

\* the first rule that applies, in the order the adapter tries them
OrderedType(cls, text) ==
    IF Contains(cls, "auth") THEN "LiteLLMAuthenticationError"
    ELSE IF Mentions(text, {"authentication", "api key", "unauthorized", "401"})
    THEN "LiteLLMAuthenticationError"
    ELSE IF Mentions(text, {"rate limit", "quota", "too many requests", "429"})
    THEN "LiteLLMRateLimitError"
    ELSE IF \/ Contains(text, "model") /\ Mentions(text, {"not found", "not supported"})
            \/ Contains(text, "404")
    THEN "LiteLLMModelError"
    ELSE IF Mentions(text, {"connection", "timeout", "network", "503"})
    THEN "LiteLLMConnectionError"
    ELSE "LiteLLMError"

\* C15 (amended): an Exception raised by the completion call or the stream
\* leaves as the first type that applies, in this order: authentication
\* (class name holding "auth", or text with authentication / api key /
\* unauthorized / 401), rate limit (rate limit / quota / too many requests /
\* 429), model ("model" together with not found or not supported, or 404),
\* connection (connection / timeout / network / 503), else the generic
\* error; an exception that is not an Exception passes through unchanged.
ErrorClassifiedInOrder ==
    ad_pc = "raised" =>
        IF ad_error.cause.is_exception
        THEN /\ ad_error.left \in FiveErrorTypes
             /\ ad_error.left =
                    OrderedType(Lower(ad_error.cause.cls), Lower(ad_error.cause.text))
        ELSE ad_error.left = ad_error.cause.cls

ErrorClassifiedWitness ==
    /\ ad_pc = "raised"
    /\ ad_stream.obtained
    /\ ad_error.cause.text = "401 after timeout, rate limit 429"
    /\ ad_error.left = "LiteLLMAuthenticationError"

StreamEnded == ad_pc \in {"returned", "raised", "closed"} /\ ad_stream.obtained

\* C16: once stream_chat has obtained the stream it is closed exactly once
\* when the iteration ends: on exhaustion, on an exception while iterating
\* and when the consumer closes the generator early.
StreamClosedOnce == StreamEnded => ad_stream.closes = 1

\* C16 (amended): a stream that has an aclose method is closed exactly once
\* when the iteration ends, on each of the three exit paths, and not before;
\* a stream without aclose is not closed by stream_chat.
StreamClosedWhenClosable ==
    /\ ad_pc = "streaming" => ad_stream.closes = 0
    /\ StreamEnded => ad_stream.closes = (IF ad_stream.has_aclose THEN 1 ELSE 0)

StreamClosedWitness ==
    /\ ad_pc = "closed"
    /\ ad_stream.has_aclose
    /\ ad_stream.yielded < MaxChunks
    /\ ad_stream.closes = 1


\* the vendor and the model name of each model string, split at the first "/"
ParseOf(m) ==
    CASE m = "openai/gpt-4o" -> <<"openai", "gpt-4o">>
      [] m = "gpt-4o" -> <<"openai", "gpt-4o">>
      [] m = "openrouter/anthropic/claude-3.5-sonnet"
            -> <<"openrouter", "anthropic/claude-3.5-sonnet">>

\* C17: after set_model(m) the model and the last-used model are m and
\* get_provider_name() / get_model_name() are the parse of m; the cache is
\* flushed and compatibility re-checked iff m differs from the previous model;
\* a model changed by direct assignment is detected and flushed at the start
\* of the next call, before the request is sent.
SetModelPostcondition ==
    /\ ad_op.name = "set_model" =>
          /\ ad_model = ad_op.arg
          /\ ad_last_model = ad_op.arg
          /\ <<ad_vendor_prefix, ad_model_name>> = ParseOf(ad_op.arg)
          /\ ad_op.flushed = (ad_op.arg # ad_op.old_model)
          /\ ad_op.validated = (ad_op.arg # ad_op.old_model)
    /\ CallInFlight =>
          /\ ad_op.name = "call"
          /\ ad_op.flushed = (ad_op.old_model # ad_op.old_last)
          /\ ad_last_model = ad_model
          /\ <<ad_vendor_prefix, ad_model_name>> = ParseOf(ad_model)
          /\ ad_request.model = ad_model


\* the clients that are open
Open == {c \in 1..hs_created : c \notin hs_closed}

\* C18: under any interleaving of get_session, close_session and
\* health_check at most one HTTP client is open, no client exists before the
\* first get_session, every get_session returns a client that is open when
\* it returns, and the get_session calls between two closes return the same
\* client.
SingleLazyClient ==
    /\ Cardinality(Open) <= 1
    /\ (hs_created > 0 => hs_gets # {})
    /\ hs_ret.op = "get" =>
          /\ hs_ret.value
          /\ hs_ret.open = {hs_ret.client}
    /\ \A g1 \in hs_gets, g2 \in hs_gets : g1[1] = g2[1] => g1[2] = g2[2]

SingleLazyClientWitness ==
    /\ hs_ret.op = "get"
    /\ hs_ret.client = 2
    /\ \E t \in Tasks : hs_task[t] = "wait_close"
    /\ \E g \in hs_gets : g[2] = 1

ClientOpen == hs_session # 0 /\ hs_session \notin hs_closed

\* after a close_session that returned there is no open client
CloseLeavesNoClient ==
    hs_ret.op = "close" =>
        /\ Open = {}
        /\ ~ClientOpen
        /\ hs_ret.open = {}
        /\ (~hs_ret.noop => hs_session = 0)

\* every get_session after a close returns a client made after that close
GetAfterCloseFresh == \A g \in hs_gets : g[2] = g[1] + 1

\* a close_session without an open client never awaits aclose and changes
\* nothing
CloseWithoutClientStep ==
    /\ \A t \in Tasks :
          (~ClientOpen /\ hs_task[t] # "closing") => hs_task'[t] # "closing"
    /\ (hs_ret'.op = "close" /\ hs_ret'.noop /\ hs_ret' # hs_ret) =>
          UNCHANGED <<hs_session, hs_created, hs_closed, hs_lock, hs_gets>>

\* C19: close_session is idempotent: without a client, or with a closed one,
\* it changes nothing and raises nothing; after one close or two there is no
\* open client and health_check is false; a get_session after a close makes
\* a fresh open client.
CloseIsIdempotent ==
    /\ []CloseLeavesNoClient
    /\ []GetAfterCloseFresh
    /\ [][CloseWithoutClientStep]_vars

CloseIsIdempotentWitness ==
    /\ hs_ret.op = "close"
    /\ hs_ret.noop
    /\ hs_session = 0
    /\ Cardinality(hs_closed) = 2
    /\ \E g \in hs_gets : g[2] = 2


\* C20: the status spinner passed to chat is stopped before the
\* confirmation prompt is shown and before any tool executes: whenever the
\* tool loop is about to run a tool, a tool is running or the prompt is
\* open, status.stop() has been called in the turn.
StatusStoppedBeforeTools ==
    /\ pc \in {"dispatch", "executing", "confirm"} => status = "stopped"
    /\ (Len(exec_log) > 0 \/ Len(confirm_log) > 0) => status = "stopped"
    /\ pc = "await_model" => status = "running"

StatusStoppedWitness ==
    /\ pc = "confirm"
    /\ status = "stopped"
    /\ Len(tool_results) = 1
    /\ tool_results[1].function_name = "shell_exec"

(***************************************************************************)
(* The Ctrl-C guard                                                        *)
(***************************************************************************)
WithinGrace(tap) == tap.previous # 0 /\ tap.at - tap.previous < GRACE

\* C21: SIGINT is a double tap.  A tap within 2 seconds of the previous tap
\* raises KeyboardInterrupt and restores the default handler; any other tap
\* is a first tap, which does not terminate the process and cancels the
\* provider call in flight.
DoubleTapInterrupt ==
    sig_tap.kind # "none" =>
        /\ (sig_tap.kind = "second") = WithinGrace(sig_tap)
        /\ sig_tap.kind = "second" =>
                sig_tap.raised /\ sig_tap.handler_after = "default"
        /\ sig_tap.kind = "first" =>
                /\ ~sig_tap.raised
                /\ sig_tap.call_before = "in_flight" =>
                        sig_tap.call_after = "cancelled"

PendingTimers == {t \in sig_timers : t.state = "pending"}

\* C22: nothing writes cursor sequences to the terminal while _in_status is
\* true, and at most one cleanup timer is pending.
NoCursorWritesInStatus ==
    /\ sig_out.cursor => ~sig_out.in_status
    /\ Cardinality(PendingTimers) <= 1

(***************************************************************************)
(* shell_exec: the timeout                                                 *)
(***************************************************************************)
TimeoutStep == sh_pc = "timed_out" /\ sh_pc' = "returned"

NothingLeftRunning == sh_pc \in {"idle", "returned"} => ~sh_alive

\* C23: when the timeout expires before the subprocess has finished,
\* shell_exec kills it, waits for it and returns success=false with a timed
\* out error; nothing it started runs after it has returned.
TimeoutKillsSubprocess ==
    /\ [][TimeoutStep =>
            /\ ~sh_alive'
            /\ ~sh_result'.success
            /\ sh_result'.error = "Command timed out"]_vars
    /\ []NothingLeftRunning

(***************************************************************************)
(* todo_write: entries without id                                          *)
(***************************************************************************)
\* the larger of the Jaccard and the subset measure of two contents
PlainSimilarity(content1, content2) ==
    LET words1 == Words(Normalized(content1))
        words2 == Words(Normalized(content2))
    IN  IF words1 = {} \/ words2 = {} THEN <<0, 1>>
        ELSE Larger(jaccard_similarity(words1, words2),
                    subset_similarity(words1, words2))

\* the loop of todo_write has taken an entry that has content and no id
UpsertStep ==
    /\ td_pc = "loop" /\ td_pc' = "loop"
    /\ ~td_op'.by_id
    /\ td_op'.content # ""

\* position k of the list is rewritten with the content of the entry and
\* nothing else changes
UpdatedAt(k) ==
    /\ Len(td_todos') = Len(td_todos)
    /\ td_todos'[k].content = td_op'.content
    /\ td_todos'[k].id = td_todos[k].id
    /\ \A j \in 1..Len(td_todos) : j # k => td_todos'[j] = td_todos[j]

\* a todo is appended with the content of the entry
Created ==
    /\ Len(td_todos') = Len(td_todos) + 1
    /\ td_todos'[Len(td_todos')].content = td_op'.content
    /\ \A j \in 1..Len(td_todos) : td_todos'[j] = td_todos[j]

\* C24: an entry without id whose content has similarity >= 0.75 (the
\* larger of Jaccard and subset) with an existing todo updates the best
\* matching todo and the list does not grow; only an entry with similarity
\* below 0.75 to every existing todo creates a todo.
UpsertAtThreshold ==
    [][UpsertStep =>
         LET plain(k) == PlainSimilarity(td_op'.content, td_todos[k].content)
             similar == {k \in 1..Len(td_todos) : reaches_threshold(plain(k))}
         IN  IF similar # {}
             THEN \E k \in similar :
                    /\ \A j \in similar : ~Greater(plain(j), plain(k))
                    /\ UpdatedAt(k)
             ELSE Created]_vars

\* the positions of the list that the manager of the call looks at
InSession == {k \in 1..Len(td_todos) :
                td_session = NoSessionId \/ td_todos[k].session_id = td_session}

\* C24, as the code has it: the similarity is 1 for equal normalized
\* contents and else the larger of Jaccard and 0.9 times the subset measure;
\* an entry without id updates a todo of the session of the call exactly
\* when one of them has equal normalized content or a similarity above 0.75:
\* the first with equal normalized content, else the first of those with the
\* largest similarity.  Otherwise it creates a todo.  The store then holds
\* the list of the manager.
UpsertAboveThreshold ==
    [][UpsertStep =>
         LET sim(k) == Similarity(td_op'.content, td_todos[k].content)
             equal == {k \in InSession :
                         Normalized(td_todos[k].content) = Normalized(td_op'.content)}
             similar == {k \in InSession : Greater(sim(k), similarity_threshold)}
             first(S) == CHOOSE k \in S : \A j \in S : k <= j
             top == {k \in similar : \A j \in similar : ~Greater(sim(j), sim(k))}
         IN  /\ IF equal # {} THEN UpdatedAt(first(equal))
                ELSE IF similar # {} THEN UpdatedAt(first(top))
                ELSE Created
             /\ td_file' = [exists |-> TRUE, chunks |-> FileOf(td_todos')]]_vars

UpsertWitness ==
    /\ td_op.kind = "updated_similar"
    /\ ~td_op.by_id
    /\ Len(td_todos) = 1
    /\ td_todos[1].content = td_op.content
    /\ td_file.chunks = FileOf(td_todos)

(***************************************************************************)
(* The todo store                                                          *)
(***************************************************************************)
NobodySaving == \A m \in Managers : td_mgr[m].pc # "saving"

\* C25: after two managers have loaded, changed and saved, the store holds
\* exactly the list of the manager that saved last, and a manager made
\* afterwards loads exactly that list.
LastWriterWins ==
    (NobodySaving /\ td_saved.by # 0) =>
        /\ td_file.exists
        /\ td_file.chunks = FileOf(td_saved.todos)
        /\ load_todos(td_file) = td_saved.todos

(***************************************************************************)
(* The model discovery cache                                               *)
(***************************************************************************)
\* task t calls discover_models
CallStep(t) ==
    /\ md_call[t].pc = "idle"
    /\ \/ md_call'[t].pc = "discovering"
       \/ md_ret' # md_ret /\ md_ret'.task = t /\ ~md_ret'.discovered

\* the use_cache argument of that call
CallUsesCache(t) ==
    IF md_call'[t].pc = "discovering" THEN md_call'[t].use_cache ELSE md_ret'.use_cache

\* task t gets the cached list back and no discovery was run for it
ServedFromCache(t) ==
    /\ md_call'[t].pc = "idle"
    /\ md_ret'.task = t /\ ~md_ret'.discovered
    /\ md_ret'.value = md_cache
    /\ UNCHANGED <<md_cache, md_cache_timestamp>>

FreshCache == md_cache # <<>> /\ md_now - md_cache_timestamp < 300

\* a discovery that was awaited ends
DiscoveryEnds(t) == md_call[t].pc = "discovering" /\ md_call'[t].pc = "idle"

\* the cache changes and no call has moved
InvalidateStep ==
    /\ md_call' = md_call /\ md_ret' = md_ret
    /\ <<md_cache, md_cache_timestamp>>' # <<md_cache, md_cache_timestamp>>

\* C26: discover_models(use_cache=True) returns the cached list without a
\* discovery exactly when the cache is non-empty and younger than 300
\* seconds; in every other case (expired, empty, use_cache=False, after
\* invalidate_cache, which empties the cache and sets its timestamp to 0) a
\* discovery is run, and when it succeeds its result replaces the cache and
\* the timestamp.
CacheWithTtl ==
    /\ [][\A t \in Callers : CallStep(t) =>
             /\ ServedFromCache(t) = (CallUsesCache(t) /\ FreshCache)
             /\ ~ServedFromCache(t) => md_call'[t].pc = "discovering"]_vars
    /\ [][\A t \in Callers : DiscoveryEnds(t) =>
             /\ md_ret'.task = t /\ md_ret'.discovered
             /\ md_ret'.succeeded =>
                    /\ md_cache' = md_ret'.value
                    /\ md_cache_timestamp' = md_now
             /\ ~md_ret'.succeeded =>
                    UNCHANGED <<md_cache, md_cache_timestamp>>]_vars
    /\ [][InvalidateStep =>
             (md_cache' = <<>> /\ md_cache_timestamp' = 0 /\ ~FreshCache')]_vars

\* a list discovered earlier is served again 200 seconds later
CacheWithTtlWitness ==
    /\ md_ret.task # 0 /\ ~md_ret.discovered /\ md_ret.use_cache
    /\ md_ret.value = md_cache /\ md_cache # <<>>
    /\ md_now - md_cache_timestamp = 200

\* C27: every tool result is made JSON-safe before it becomes the content of a
\* tool message, whatever it holds and however deep: serializing it never
\* fails, and the message is appended.
ToolResultsSerialize ==
    /\ js_pc # "raised_TypeError"
    /\ js_pc = "appended" => js_content # ""

\* what the target holds, nothing when it does not exist
ExistingContent(target) == IF target.kind = "file" THEN target.content ELSE <<>>

\* the step in which _handle_file_edit obtains the preview
PreviewStep == fe_pc = "idle" /\ fe_pc' # "idle"

\* C28: the preview of file_edit creates, modifies and deletes no file; it
\* returns changes_made = false exactly when the new content is identical to
\* what the file holds, and the orchestrator then reports "No changes needed"
\* without a prompt and without a write.
PreviewIsReadOnly ==
    [][PreviewStep =>
        /\ fe_file' = fe_file
        /\ fe_bak' = fe_bak
        /\ fe_preview'.success =>
            /\ ~fe_preview'.changes_made
                    <=> (fe_args'.new_content = ExistingContent(fe_file))
            /\ ~fe_preview'.changes_made =>
                    fe_pc' = "returned" /\ fe_result' = NoChangesResult]_vars

\* the call has returned the result of an edit that was applied
EditApplied ==
    /\ fe_pc = "returned"
    /\ fe_result.success
    /\ fe_result # NoChangesResult

\* C29: after a confirmed file_edit the file holds exactly new_content; a .bak
\* sibling holding the pre-edit content is made if and only if the file
\* existed and create_backup is true, so a call with create_backup = false
\* leaves the sibling as it was.
ConfirmedEditWrites ==
    EditApplied =>
        /\ fe_file = RegularFile(fe_args.new_content)
        /\ fe_bak = IF fe_call.file.kind # "absent" /\ fe_args.create_backup
                    THEN RegularFile(fe_call.file.content)
                    ELSE fe_call.bak

\* apply_file_edit did not run to its end: the process died in it, or a
\* write raised
ApplyCutShort ==
    \/ fe_pc = "crashed"
    \/ fe_pc = "returned" /\ fe_result = ApplyRaised

\* C30: applying a confirmed edit is atomic: when the process crashes or a
\* write fails anywhere in apply_file_edit, the target is as it was before
\* the edit or holds the whole new content, never an empty or partial file.
ApplyIsAtomic ==
    ApplyCutShort => fe_file \in {fe_call.file, RegularFile(fe_args.new_content)}

\* the model string the provider runs a model name under
RunsAs(name) == IF mc_is_litellm THEN resolve_litellm_model(provider_name, name) ELSE name

\* the chat loop is done with a /model command that changed the model
SwitchDone == mc_pc = "idle" /\ has_session /\ mc_result.new_model # ""

\* C31: after a successful /model switch in a session the provider runs the new
\* model and the turns that follow use it, the session's provider_config names
\* the new model and is persisted, and the system message recording the switch
\* is in the session transcript and in what is persisted.
ModelSwitchPersisted ==
    SwitchDone =>
        /\ mc_model = RunsAs(mc_result.new_model)
        /\ mc_turn.n > 0 => mc_turn.model = mc_model
        /\ mc_config.model = mc_result.new_model
        /\ mc_saved.config = mc_config
        /\ InList(SwitchMessage(mc_result.new_model), mc_messages)
        /\ mc_saved.messages = mc_messages

\* a /model command has just been executed
CommandStep == mc_pc = "idle" /\ mc_pc' = "result"

\* the command named a model that is not among the available ones
UnknownName(state) ==
    /\ state.typed \notin {"", "--refresh", "--reload"}
    /\ ~InList(state.typed, AvailableModels)

\* the menu was left by Cancel, or with the model that is in use
KeepsModel(state) ==
    /\ state.typed = ""
    /\ \/ state.choice = None
       \/ state.choice = Len(AvailableModels)
       \/ RunsAs(AvailableModels[state.choice + 1]) = state.model

NotAvailable ==
    /\ ~mc_result'.success
    /\ mc_result'.message = "not available"
    /\ UNCHANGED <<mc_model, mc_config, mc_saved>>

\* C36: '/model <name>' with a name that is not among the available models
\* fails with a 'not available' result and changes neither the provider's
\* model nor the session's provider_config nor the saved session; Cancel and
\* the choice of the current model in the menu leave the model unchanged.
UnknownModelRefused ==
    [][CommandStep =>
        /\ UnknownName(mc_before') => NotAvailable
        /\ KeepsModel(mc_before') => mc_model' = mc_model]_vars

\* C36 (amended): for a provider that is not a LiteLLM adapter an unknown name
\* fails with 'not available' and changes nothing; a LiteLLM adapter takes any
\* name and is switched to "<provider>/<name>"; Cancel and the choice of the
\* current model in the menu leave the model unchanged.
UnknownModelRefusedByLegacy ==
    [][CommandStep =>
        /\ UnknownName(mc_before') =>
              IF mc_is_litellm
              THEN /\ mc_result'.success
                   /\ mc_model' = resolve_litellm_model(provider_name, mc_before'.typed)
              ELSE NotAvailable
        /\ KeepsModel(mc_before') => mc_model' = mc_model]_vars

UnknownModelWitness ==
    /\ mc_pc = "result"
    /\ ~mc_is_litellm
    /\ mc_before.typed = "gpt-5-preview"
    /\ mc_result.message = "not available"
    /\ mc_model = mc_before.model

\* the turn under way has been dealt with
TurnOver == cl_pc \in {"input", "exited"} /\ cl_outcome # "none"

\* the step that deals with the end of a turn
HandlingStep == cl_pc = "handlers" /\ cl_pc' # "handlers"

\* C32: a turn that fails with an exception other than an interrupt does not
\* end the process: the error is displayed, the spinner is stopped, _in_status
\* is false again and the loop is back at the prompt; the spinner is stopped
\* and the flag false just the same after a successful turn and after an
\* interrupt.
LoopSurvivesErrors ==
    /\ [](TurnOver => ~cl_spinning /\ ~cl_in_status)
    /\ [][HandlingStep =>
            /\ ~cl_spinning /\ ~cl_in_status
            /\ cl_outcome = "Exception" => cl_pc' = "input" /\ cl_shown' = "error"]_vars

LoopSurvivesWitness ==
    /\ cl_pc = "input"
    /\ cl_outcome = "Exception"
    /\ cl_shown = "error"
    /\ ~cl_spinning /\ ~cl_in_status
    /\ Len(cl_log) > 1

\* the validator was given a string
GivenString == va_pc = "returned" /\ va_arguments.kind = "str"

\* C33: validate_and_fix_tool_arguments always returns a dictionary: a dict
\* is returned as it is, a string that parses strictly gives the parsed value,
\* one that does not gives its repaired parse, and one that cannot be
\* repaired gives the empty dict.
ValidatedArgumentsAreDict ==
    va_pc = "returned" =>
        /\ va_result.kind = "dict"
        /\ va_arguments.kind = "dict" => va_result = va_arguments.value
        /\ GivenString /\ json_loads(va_arguments.tokens).ok =>
              va_result = json_loads(va_arguments.tokens).value
        /\ /\ GivenString
           /\ ~json_loads(va_arguments.tokens).ok
           /\ ~fix_malformed_json(va_arguments.tokens, va_provider).ok
           => va_result = PyDict(<<>>)

\* what a message contributes to a request: role, content and tool_call_id
Sent(msgs) ==
    [k \in 1..Len(msgs) |->
        [role |-> msgs[k].role, content |-> msgs[k].content,
         tool_call_id |-> msgs[k].tool_call_id]]

\* no turn is under way
BetweenTurns == pc \in {"idle", "done"}

\* C34: with a session, whenever no turn is under way (after a completed turn
\* of any kind, after /clear, after a model switch) conversation_history and
\* session.messages hold the same roles, contents and tool_call_ids, so the
\* next request equals the one a resumed session would make.
HistoryInStepWithSession ==
    has_session /\ BetweenTurns =>
        /\ Sent(conversation_history) = Sent(session_messages)
        /\ Len(stored_messages) > 0 =>
              Sent(conversation_history) = Sent(load_history_from_session(stored_messages))

\* C35: the summary of todo_write counts as completed the entries whose todo
\* went from not completed to completed in this call, updated and newly
\* created ones alike, and as created and updated the entries that created
\* and updated a todo.
CompletedCountIsExact ==
    tc_pc = "returned" =>
        /\ tc_result.completed = tc_truth.completed
        /\ tc_result.created = tc_truth.created
        /\ tc_result.updated = tc_truth.updated

NamedVendors == {"openai", "anthropic", "claude", "gemini", "openrouter", "ollama"}

\* the key named for each of these providers
NamedKey(vendor) ==
    CASE vendor = "openai" -> "OPENAI_API_KEY"
      [] vendor \in {"anthropic", "claude"} -> "ANTHROPIC_API_KEY"
      [] vendor = "gemini" -> "GEMINI_API_KEY"
      [] vendor = "openrouter" -> "OPENROUTER_API_KEY"
      [] vendor = "ollama" -> NoEnvVar

\* C37: for openai, anthropic, claude, gemini, openrouter and ollama the
\* constructor's check and check_environment_readiness look at the same
\* variable, the one named for the provider, env_ready is true exactly when
\* the constructor's check found no key missing, and a missing key never
\* keeps the adapter from being constructed.
EnvironmentChecksAgree ==
    ev_pc = "checked" /\ ev_vendor \in NamedVendors =>
        /\ ev_preflight.constructed
        /\ ev_preflight.env_var = NamedKey(ev_vendor)
        /\ ev_status.env_var = ev_preflight.env_var
        /\ ev_status.env_ready <=> ~ev_preflight.warned

\* C38: the discovery cache holds nothing but the result of a successful
\* live discovery: the fallback list is never stored in it, and a call that
\* returns the fallback list leaves the cache and its timestamp as they were.
CacheHoldsOnlyLiveResults ==
    /\ [](md_cache # <<>> => md_source = "live")
    /\ [][\A t \in Callers :
             DiscoveryEnds(t) /\ md_ret'.value = get_fallback_models =>
                 UNCHANGED <<md_cache, md_cache_timestamp>>]_vars

\* the history the manager works on: its cache, or what a load would give
CurrentHistory == load_project_user_messages(hm_mgr, hm_stored).cache

\* C39: whatever calls are made on a MessageHistoryManager, reloads that give
\* a shorter or an empty history included, no call raises and the index is -1
\* or a position of the current history; navigate_up at the oldest message
\* stays there, and navigate_down at the newest returns the original input
\* and ends the navigation.
HistoryIndexStaysValid ==
    /\ hm_ret.kind # "IndexError"
    /\ hm_mgr.current_index = -1 \/ hm_mgr.current_index \in 0..(Len(CurrentHistory) - 1)
    /\ hm_ret.op = "navigate_up" /\ hm_ret.before.current_index = 0 /\ hm_ret.kind = "text" =>
          hm_mgr.current_index = 0
    /\ /\ hm_ret.op = "navigate_down"
       /\ hm_ret.before.loaded
       /\ hm_ret.before.current_index = Len(hm_ret.before.cache) - 1
       /\ hm_ret.before.cache # <<>>
       => /\ hm_ret.text = hm_ret.before.original_input
          /\ ~is_navigating(hm_mgr)

\* a key has been handled and the next one is awaited
KeyHandled == in_pc = "reading" /\ in_last.key # "none"

\* C40: in get_input_with_history, after every handled key in_history_mode
\* equals history_manager.is_navigating(), and Escape pressed during a
\* navigation restores the input typed before it.
HistoryModeMatchesManager ==
    /\ KeyHandled => (in_mode <=> is_navigating(in_mgr))
    /\ KeyHandled /\ in_last.key = "Escape" /\ in_last.mode_before =>
          in_current = in_last.typed /\ ~in_mode

====
